---- MODULE Spec2Model ----
(***************************************************************************)
(* A model of the room-and-corridor generators of NoiseMapGenerators_14.py *)
(*   DungeonMapGenerator        (the "Sequential" generator)               *)
(*   MarkIIDungeonMapGenerator  (the "Branching" generator)                *)
(* and of their shared helper check_these_two_rectangles_for_intersection. *)
(*                                                                         *)
(* A rectangle [x, y, w, h] of the code is the tuple <<x, y, w, h>>; its   *)
(* fields are read with RX, RY, RW, RH.  A centerpoint [x, y] is <<x, y>>. *)
(* A python list is a sequence; a grid (list of rows) is a sequence of     *)
(* sequences, and the python cell grid[row][col] is Cell(grid, row, col).  *)
(* random.randint(a, b) is a nondeterministic choice in a..b.              *)
(***************************************************************************)
EXTENDS Integers, Sequences, FiniteSets, TLC

\* ------------------------------------------------------------------ bounds
\* The arguments of the modelled generate_noise call.
SuppliedMapWidth == 7
SuppliedMapHeight == 6
RoomMinSize == 1
RoomMaxSize == 2
RoomMaxCount == 4
\* room_max_count of the call to the Sequential generator
SequentialRoomMaxCount == 3
\* room_min_count is drawn from 1..MaxRoomMinCount when the call starts.
MaxRoomMinCount == 2
\* In the calls that can never place enough rooms, room_min_count exceeds
\* room_max_count of the MarkII call by 1..MaxExcessRoomMinCount.
MaxExcessRoomMinCount == 1
\* Endpoints handed to the corridor helpers on their own: x, y, x2, y2 in
\* -MaxCorridorCoord..MaxCorridorCoord.
MaxCorridorCoord == 2
\* Rectangles handed to the intersection test on its own: x, y in 0..MaxCoord,
\* w, h in 1..MaxSide.
MaxCoord == 2
MaxSide == 3
\* The size of the map of the modelled RoomFilled call.
FilledMapWidth == 7
FilledMapHeight == 7
\* Plasma: supplied_width and supplied_height are drawn from 1..MaxPlasmaSize,
\* each supplied corner is 0 or MaxPlasmaCorner, and the midpoint displacement
\* is drawn from PlasmaDisplacementMin..PlasmaDisplacementMax.
\* Perlin: width is drawn from 1..MaxNoiseWidth and height from
\* 1..MaxNoiseHeight, frequency from the halves 0/2..MaxFrequencyHalves/2, each
\* random.randint(0, 1000) from the multiples of SampleStep, and octaves from
\* 1..MaxOctaves and from the powers of two 2^MinLog2Octaves..2^MaxLog2Octaves.
MaxNoiseWidth == 2
MaxNoiseHeight == 2
MaxFrequencyHalves == 2
SampleStep == 1000
MaxOctaves == 3
MinLog2Octaves == 52
MaxLog2Octaves == 53
\* Simplex: supplied_x is drawn from 1..MaxSimplexWidth and supplied_y from
\* 1..MaxSimplexHeight, scale from the tenths MinScaleTenths/10 and
\* MaxScaleTenths/10, octaves from 1..MaxSimplexOctaves, persistence from the
\* halves 0/2..MaxPersistenceHalves/2 (at most 1), randseed from
\* 1..MaxRandseed; generate_noise is called MaxSimplexCalls times, and the
\* draws of one shuffle follow one of the rules 0..MaxShuffleRule.
MaxSimplexWidth == 2
MaxSimplexHeight == 2
MinScaleTenths == 1
MaxScaleTenths == 7
MaxSimplexOctaves == 2
MaxPersistenceHalves == 2
MaxRandseed == 1
MaxSimplexCalls == 2
MaxShuffleRule == 1
MaxLookupCell == 260
LookupStride == 5
MaxPlasmaSize == 3
MaxPlasmaCorner == 2
PlasmaDisplacementMin == 0
PlasmaDisplacementMax == 1

VARIABLES
    generator,                       \* which class's generate_noise is running
    room_min_count,                  \* self.room_min_count
    pc,                              \* position inside generate_noise
    exception,                       \* "none", or the exception that ended the call
    each_new_room_attempt,           \* attempts made in the current batch
    list_of_candidate_rooms,         \* MarkII: accepted rooms of the batch
    list_of_all_centerpoints,        \* MarkII
    list_of_room_connection_colors,  \* MarkII: the components
    list_of_new_corridors,           \* MarkII
    rooms_linked,                    \* MarkII: rooms done by the first-pass loop
    passes_left,                     \* MarkII: iterations left of the merge loop
    the_dungeon_map,                 \* MarkII: the returned grid
    referenced,                      \* MarkII: <<row, col>> index pairs used by rasterization
    list_of_rooms,                   \* Sequential: accepted rooms of the batch
    new_dungeon_map,                 \* Sequential: the grid
    rectangle_alpha,                 \* intersection test on its own: arguments
    rectangle_beta,
    do_they_intersect,               \* and its result (False until set)
    has_returned,                    \* whether the test has returned
    each_row_index,                  \* RoomFilled: the tile the scan is at
    each_column_index,
    supplied_width,                  \* Plasma: arguments of generate_noise
    supplied_height,
    supplied_corners,                \* <<uleft, uright, lleft, lright>>
    pending_calls,                   \* Plasma: calls of plasma_recursion not yet run
    saved_noise_array,               \* Plasma: self.saved_noise_array
    array_to_return,                 \* Plasma: the returned grid
    noise_array,                     \* Perlin: self.noise_array, rows of floats
    noise_width,                     \* Perlin: self.noise_width
    noise_height,                    \* Perlin: self.noise_height
    frequency,                       \* Perlin: arguments of generate_noise
    octaves,
    turbulence_size,                 \* Perlin: size and noise_value of the turbulence function
    noise_value,
    result,                          \* Perlin: the rows turbulated so far
    noise_array_seed,                \* Simplex: self.noise_array_seed
    permutations_table,              \* Simplex: self.permutations_table
    explicitly_seeded_table,         \* Simplex: the table __init__ or the last explicit reseed left
    random_draws,                    \* Simplex: the rule the draws of the last shuffle followed
    supplied_x,                      \* Simplex: arguments of generate_noise
    supplied_y,
    scale,
    persistence,
    randseed,
    array_to_be_returned,            \* Simplex: the rows computed so far
    returned_grids,                  \* Simplex: the grids returned so far
    corridor_alpha,                  \* corridor helpers on their own: the endpoint <<x, y>>
    corridor_beta,                   \* and the endpoint <<x2, y2>>
    new_corridor,                    \* define_corridor's orientation and result
    new_l_corridor,                  \* the direction drawn and the two corridors of an L
    lookup_cell,                     \* table lookups on their own: the simplex cell <<i, j>>
    lookup_corner,                   \* the middle corner <<i1, j1>>
    gradient_lookups                 \* the indices used and the gradient indices found

vars == <<generator, room_min_count, pc, exception, each_new_room_attempt,
          list_of_candidate_rooms, list_of_all_centerpoints,
          list_of_room_connection_colors, list_of_new_corridors, rooms_linked,
          passes_left, the_dungeon_map, referenced, list_of_rooms,
          new_dungeon_map, rectangle_alpha, rectangle_beta, do_they_intersect,
          has_returned, each_row_index, each_column_index, supplied_width,
          supplied_height, supplied_corners, pending_calls, saved_noise_array,
          array_to_return, noise_array, noise_width, noise_height, frequency,
          octaves, turbulence_size, noise_value, result, noise_array_seed, permutations_table,
          explicitly_seeded_table, random_draws, supplied_x, supplied_y, scale, persistence,
          randseed, array_to_be_returned, returned_grids, corridor_alpha,
          corridor_beta, new_corridor, new_l_corridor, lookup_cell, lookup_corner,
          gradient_lookups>>

\* The arguments and results of the helpers that are called on their own.
callVars == <<corridor_alpha, corridor_beta, new_corridor, new_l_corridor,
              lookup_cell, lookup_corner, gradient_lookups>>

\* The variables of the generators other than the two dungeon generators.
scanVars == <<each_row_index, each_column_index>>
plasmaVars == <<supplied_width, supplied_height, supplied_corners, pending_calls,
                saved_noise_array, array_to_return>>
perlinVars == <<noise_array, noise_width, noise_height, frequency, octaves, turbulence_size,
                noise_value, result>>
simplexVars == <<noise_array_seed, permutations_table, explicitly_seeded_table, random_draws, supplied_x, supplied_y,
                 scale, persistence, randseed, array_to_be_returned, returned_grids>>
noiseVars == <<plasmaVars, perlinVars, simplexVars>>
otherVars == <<scanVars, noiseVars, callVars>>

\* The plasma generator is not running.
PlasmaIdle ==
    /\ supplied_width = 0
    /\ supplied_height = 0
    /\ supplied_corners = <<>>
    /\ pending_calls = <<>>
    /\ saved_noise_array = <<>>
    /\ array_to_return = <<>>

\* The value noise generator is not running.
PerlinIdle ==
    /\ noise_array = <<>>
    /\ noise_width = 0
    /\ noise_height = 0
    /\ frequency = <<>>
    /\ octaves = <<>>
    /\ turbulence_size = <<>>
    /\ noise_value = <<>>
    /\ result = <<>>

\* The simplex generator is not running.
SimplexIdle ==
    /\ noise_array_seed = <<>>
    /\ permutations_table = <<>>
    /\ explicitly_seeded_table = <<>>
    /\ random_draws = 0
    /\ supplied_x = 0
    /\ supplied_y = 0
    /\ scale = <<>>
    /\ persistence = <<>>
    /\ randseed = 0
    /\ array_to_be_returned = <<>>
    /\ returned_grids = <<>>

\* The noise generators are not running.
NoiseIdle ==
    /\ PlasmaIdle
    /\ PerlinIdle
    /\ SimplexIdle

\* The other generators are not running.
OthersIdle ==
    /\ each_row_index = 0
    /\ each_column_index = 0
    /\ NoiseIdle

RX(r) == r[1]
RY(r) == r[2]
RW(r) == r[3]
RH(r) == r[4]

None == <<>>

\* No helper has been called on its own.
CallsIdle ==
    /\ corridor_alpha = None
    /\ corridor_beta = None
    /\ new_corridor = None
    /\ new_l_corridor = None
    /\ lookup_cell = None
    /\ lookup_corner = None
    /\ gradient_lookups = None

\* ------------------------------------------------------- pure helpers

\* check_these_two_rectangles_for_intersection without its last if: the
\* "old room is the vertical bar of the cross" test is left out.
IntersectionWithoutSecondCrossTest(rectangle_a, rectangle_b) ==
    LET new_x  == RX(rectangle_a)
        new_x2 == RX(rectangle_a) + RW(rectangle_a)
        old_x  == RX(rectangle_b)
        old_x2 == RX(rectangle_b) + RW(rectangle_b)
        new_y  == RY(rectangle_a)
        new_y2 == RY(rectangle_a) + RH(rectangle_a)
        old_y  == RY(rectangle_b)
        old_y2 == RY(rectangle_b) + RH(rectangle_b)
    IN  \/ /\ ((new_x >= old_x) /\ (new_x <= old_x2)) \/ ((new_x2 >= old_x) /\ (new_x2 <= old_x2))
           /\ ((new_y >= old_y) /\ (new_y <= old_y2)) \/ ((new_y2 >= old_y) /\ (new_y2 <= old_y2))
        \/ /\ ((old_x >= old_x) /\ (old_x <= new_x2)) \/ ((old_x2 >= new_x) /\ (old_x2 <= new_x2))
           /\ ((old_y >= new_y) /\ (old_y <= new_y2)) \/ ((old_y2 >= new_y) /\ (old_y2 <= new_y2))
        \/ ((new_x >= old_x) /\ (new_x2 <= old_x2)) /\ ((new_y <= old_y) /\ (new_y2 >= old_y2))

\* check_these_two_rectangles_for_intersection(rectangle_alpha, rectangle_beta):
\* the four ifs, each of which can set do_they_intersect to True.  The second
\* if reads (old_x >= old_x), as the source does.
check_these_two_rectangles_for_intersection(rectangle_a, rectangle_b) ==
    LET new_x  == RX(rectangle_a)
        new_x2 == RX(rectangle_a) + RW(rectangle_a)
        old_x  == RX(rectangle_b)
        old_x2 == RX(rectangle_b) + RW(rectangle_b)
        new_y  == RY(rectangle_a)
        new_y2 == RY(rectangle_a) + RH(rectangle_a)
        old_y  == RY(rectangle_b)
        old_y2 == RY(rectangle_b) + RH(rectangle_b)
    IN  \/ /\ ((new_x >= old_x) /\ (new_x <= old_x2)) \/ ((new_x2 >= old_x) /\ (new_x2 <= old_x2))
           /\ ((new_y >= old_y) /\ (new_y <= old_y2)) \/ ((new_y2 >= old_y) /\ (new_y2 <= old_y2))
        \/ /\ ((old_x >= old_x) /\ (old_x <= new_x2)) \/ ((old_x2 >= new_x) /\ (old_x2 <= new_x2))
           /\ ((old_y >= new_y) /\ (old_y <= new_y2)) \/ ((old_y2 >= new_y) /\ (old_y2 <= new_y2))
        \/ ((new_x >= old_x) /\ (new_x2 <= old_x2)) /\ ((new_y <= old_y) /\ (new_y2 >= old_y2))
        \/ ((old_x > new_x) /\ (old_x2 < new_x2)) /\ ((old_y < new_y) /\ (old_y2 > new_y2))

\* The grid cells a rectangle covers, as <<column, row>> pairs.
CellsOf(r) ==
    {<<cx, cy>> : cx \in RX(r)..(RX(r) + RW(r) - 1), cy \in RY(r)..(RY(r) + RH(r) - 1)}

ShareACell(r1, r2) == CellsOf(r1) \cap CellsOf(r2) # {}

\* The closed extents [x, x+w] x [y, y+h] of the two rectangles are disjoint.
ClosedExtentsDisjoint(r1, r2) ==
    \/ RX(r1) + RW(r1) < RX(r2)
    \/ RX(r2) + RW(r2) < RX(r1)
    \/ RY(r1) + RH(r1) < RY(r2)
    \/ RY(r2) + RH(r2) < RY(r1)

\* ------------------------------------------- the intersection test on its own

Rectangles ==
    {<<x, y, w, h>> : x \in 0..MaxCoord, y \in 0..MaxCoord, w \in 1..MaxSide, h \in 1..MaxSide}

IdleGenerator ==
    /\ generator = "none"
    /\ room_min_count = 0
    /\ pc = "idle"
    /\ exception = "none"
    /\ each_new_room_attempt = 0
    /\ list_of_candidate_rooms = <<>>
    /\ list_of_all_centerpoints = <<>>
    /\ list_of_room_connection_colors = <<>>
    /\ list_of_new_corridors = <<>>
    /\ rooms_linked = 0
    /\ passes_left = 0
    /\ the_dungeon_map = <<>>
    /\ referenced = {}
    /\ list_of_rooms = <<>>
    /\ new_dungeon_map = <<>>

InitRect ==
    /\ IdleGenerator
    /\ OthersIdle
    /\ CallsIdle
    /\ rectangle_alpha \in Rectangles
    /\ rectangle_beta \in Rectangles
    /\ do_they_intersect = FALSE
    /\ has_returned = FALSE

CallIntersectionTest ==
    /\ ~has_returned
    /\ has_returned' = TRUE
    /\ do_they_intersect' =
          check_these_two_rectangles_for_intersection(rectangle_alpha, rectangle_beta)
    /\ UNCHANGED <<generator, room_min_count, pc, exception, each_new_room_attempt,
                   list_of_candidate_rooms, list_of_all_centerpoints,
                   list_of_room_connection_colors, list_of_new_corridors, rooms_linked,
                   passes_left, the_dungeon_map, referenced, list_of_rooms,
                   new_dungeon_map, rectangle_alpha, rectangle_beta, otherVars>>

NextRect == CallIntersectionTest

SpecRect == InitRect /\ [][NextRect]_vars

\* C3: whenever the two rectangles share at least one cell, the test answers
\* True (the initial states hold every ordered pair, so both argument orders
\* are covered).
C3_NoFalseNegative ==
    (has_returned /\ ShareACell(rectangle_alpha, rectangle_beta))
        => do_they_intersect = TRUE

\* A strict cross has been tested: alpha is the horizontal bar, beta the
\* vertical bar, and the answer is True.
C3_Witness ==
    /\ has_returned
    /\ do_they_intersect = TRUE
    /\ RX(rectangle_alpha) < RX(rectangle_beta)
    /\ RX(rectangle_beta) + RW(rectangle_beta) < RX(rectangle_alpha) + RW(rectangle_alpha)
    /\ RY(rectangle_beta) < RY(rectangle_alpha)
    /\ RY(rectangle_alpha) + RH(rectangle_alpha) < RY(rectangle_beta) + RH(rectangle_beta)
    /\ ShareACell(rectangle_alpha, rectangle_beta)

\* C4: whenever the closed extents of the two rectangles are disjoint, the
\* test answers False.
C4_DisjointGivesFalse ==
    (has_returned /\ ClosedExtentsDisjoint(rectangle_alpha, rectangle_beta))
        => do_they_intersect = FALSE


\* ------------------------------------------------ helpers of the generators

\* self.map_width and self.map_height once generate_noise has read its
\* arguments: the supplied size minus one.
map_width == SuppliedMapWidth - 1
map_height == SuppliedMapHeight - 1

room_min_size == RoomMinSize
room_max_size == RoomMaxSize
\* self.room_max_count of the generator that is running
room_max_count ==
    IF generator = "DungeonMapGenerator" THEN SequentialRoomMaxCount ELSE RoomMaxCount

Abs(n) == IF n < 0 THEN -n ELSE n

\* define_corridor without its test for a negative extent: the corridor always
\* starts at (x, y) and runs right or down.
define_corridor_never_flipped(which_orientation, x, y, x2, y2) ==
    IF which_orientation = "horizontal"
    THEN <<x, y, Abs(x2 - x) + 1, 1>>
    ELSE <<x, y, 1, Abs(y2 - y) + 1>>

\* define_corridor that adds one to the extent as it finds it, negative or not.
define_corridor_with_signed_extent(which_orientation, x, y, x2, y2) ==
    IF which_orientation = "horizontal"
    THEN <<x, y, (x2 - x) + 1, 1>>
    ELSE <<x, y, 1, (y2 - y) + 1>>

\* define_corridor(which_orientation, x, y, x2, y2)
define_corridor(which_orientation, x, y, x2, y2) ==
    LET width == x2 - x
        height == y2 - y
    IN  IF which_orientation = "horizontal"
        THEN IF width < 0
             THEN <<x - (width * (-1)), y, (width * (-1)) + 1, 1>>
             ELSE <<x, y, width + 1, 1>>
        ELSE IF height < 0
             THEN <<x, y - (height * (-1)), 1, (height * (-1)) + 1>>
             ELSE <<x, y, 1, height + 1>>

\* The corner past the far end of the rectangle.
the_far_corner_of_this_rectangle(upperleft_x, upperleft_y, width, height) ==
    <<upperleft_x + width, upperleft_y + height>>

\* return_the_center_of_this_rectangle(upperleft_x, upperleft_y, width, height)
return_the_center_of_this_rectangle(upperleft_x, upperleft_y, width, height) ==
    <<upperleft_x + (width \div 2), upperleft_y + (height \div 2)>>

CenterOfRoom(each_room) ==
    return_the_center_of_this_rectangle(RX(each_room), RY(each_room), RW(each_room), RH(each_room))

\* The square of the hypotenuse the code computes with math.sqrt.  The code
\* only compares hypotenuses with <, and sqrt is strictly increasing on the
\* small integers that occur, so the squares are compared instead.
HypotenuseSquared(ax, ay, bx, by) ==
    (Abs(bx - ax) * Abs(bx - ax)) + (Abs(by - ay) * Abs(by - ay))

\* A fresh grid of zeroes: rows rows of columns entries.
ZeroGrid(rows, columns) == [r \in 1..rows |-> [c \in 1..columns |-> 0]]

\* python's grid[row][col], for indices that are in range
Cell(grid, row, col) == grid[row + 1][col + 1]

\* python's reading of a list index: a negative index counts from the end.
PyIndex(i, n) == IF i < 0 THEN i + n ELSE i

\* Whether python raises IndexError for grid[row][col].
IndexOutOfRange(grid, row, col) ==
    \/ PyIndex(row, Len(grid)) \notin 0..(Len(grid) - 1)
    \/ PyIndex(col, Len(grid[PyIndex(row, Len(grid)) + 1])) \notin
           0..(Len(grid[PyIndex(row, Len(grid)) + 1]) - 1)

\* The <<row, col>> index pairs the rasterization loops use for one rectangle.
IndicesOf(r) ==
    {<<RY(r) + dy, RX(r) + dx>> : dy \in 0..(RH(r) - 1), dx \in 0..(RW(r) - 1)}

\* The cells of a grid of rows rows and columns columns that python reaches
\* with the rectangle's index pairs.
CellsReached(r, rows, columns) ==
    {<<PyIndex(ix[1], rows), PyIndex(ix[2], columns)>> : ix \in IndicesOf(r)}

\* Writing a room: every cell of the rectangle gets += 1.
WriteRoom(grid, r) ==
    LET reached == CellsReached(r, Len(grid), Len(grid[1]))
    IN  [row \in 1..Len(grid) |-> [col \in 1..Len(grid[row]) |->
            IF <<row - 1, col - 1>> \in reached
            THEN grid[row][col] + 1 ELSE grid[row][col]]]

\* Writing a corridor without the test for a cell that is still 0.
WriteEvenIfCarved(grid, r) ==
    LET reached == CellsReached(r, Len(grid), Len(grid[1]))
    IN  [row \in 1..Len(grid) |-> [col \in 1..Len(grid[row]) |->
            IF <<row - 1, col - 1>> \in reached
            THEN grid[row][col] + 1 ELSE grid[row][col]]]

\* Writing a corridor with the test "<= 1" where the code has "== 0".
WriteIfAtMostOne(grid, r) ==
    LET reached == CellsReached(r, Len(grid), Len(grid[1]))
    IN  [row \in 1..Len(grid) |-> [col \in 1..Len(grid[row]) |->
            IF <<row - 1, col - 1>> \in reached /\ grid[row][col] <= 1
            THEN grid[row][col] + 1 ELSE grid[row][col]]]

\* Writing a corridor (and, in the Sequential generator, a room): a cell of
\* the rectangle gets += 1 only when it is still 0.
WriteIfUncarved(grid, r) ==
    LET reached == CellsReached(r, Len(grid), Len(grid[1]))
    IN  [row \in 1..Len(grid) |-> [col \in 1..Len(grid[row]) |->
            IF <<row - 1, col - 1>> \in reached /\ grid[row][col] = 0
            THEN grid[row][col] + 1 ELSE grid[row][col]]]

RECURSIVE WriteRooms(_, _, _)
WriteRooms(grid, rooms, i) ==
    IF i > Len(rooms) THEN grid ELSE WriteRooms(WriteRoom(grid, rooms[i]), rooms, i + 1)

RECURSIVE WriteCorridors(_, _, _)
WriteCorridors(grid, corridors, i) ==
    IF i > Len(corridors) THEN grid
    ELSE WriteCorridors(WriteIfUncarved(grid, corridors[i]), corridors, i + 1)


\* ------------------------------------------------ MarkII: first-pass linking

\* The loop over list_of_all_centerpoints that finds which_centerpoint_is_closest
\* to (ax, ay): entries equal to it are skipped, a strictly shorter hypotenuse
\* replaces the best found so far.  best = None while nothing has been found.
RECURSIVE ClosestCenterpointScan(_, _, _, _, _)
ClosestCenterpointScan(ax, ay, centerpoints, i, best) ==
    IF i > Len(centerpoints) THEN best
    ELSE LET each_centerpoint == centerpoints[i]
             same == (ax = each_centerpoint[1]) /\ (ay = each_centerpoint[2])
             shorter ==
                 \/ best = None
                 \/ HypotenuseSquared(ax, ay, each_centerpoint[1], each_centerpoint[2])
                        < HypotenuseSquared(ax, ay, best[1], best[2])
         IN  ClosestCenterpointScan(ax, ay, centerpoints, i + 1,
                 IF ~same /\ shorter THEN each_centerpoint ELSE best)

\* The first centerpoint of the list other than (ax, ay), however far it is.
the_first_other_centerpoint(ax, ay, centerpoints) ==
    centerpoints[CHOOSE i \in 1..Len(centerpoints) :
                     /\ centerpoints[i] # <<ax, ay>>
                     /\ \A j \in 1..(i - 1) : centerpoints[j] = <<ax, ay>>]

which_centerpoint_is_closest(ax, ay, centerpoints) ==
    ClosestCenterpointScan(ax, ay, centerpoints, 1, None)

\* An L-corridor whose two legs both start from the same centerpoint, so that
\* they do not meet at an elbow.
LCorridorWithoutElbow(ax, ay, bx, by, which_direction_first) ==
    IF which_direction_first = 0
    THEN <<define_corridor("horizontal", ax, ay, bx, by),
           define_corridor("vertical", ax, ay, bx, by)>>
    ELSE <<define_corridor("horizontal", bx, by, ax, ay),
           define_corridor("vertical", bx, by, ax, ay)>>

\* The horizontal and the vertical corridor between alpha (ax, ay) and beta
\* (bx, by), in the order which_direction_first selects.
LCorridor(ax, ay, bx, by, which_direction_first) ==
    IF which_direction_first = 0
    THEN <<define_corridor("horizontal", ax, ay, bx, by),
           define_corridor("vertical", bx, by, ax, ay)>>
    ELSE <<define_corridor("horizontal", bx, by, ax, ay),
           define_corridor("vertical", ax, ay, bx, by)>>

\* Whether the scan of list_of_all_centerpoints finds no centerpoint other than
\* point, so that which_centerpoint_is_closest keeps its initial None.
NoOtherCenterpoint(point, centerpoints) ==
    \A i \in 1..Len(centerpoints) : centerpoints[i] = point

Contains(color, point) == \E i \in 1..Len(color) : color[i] = point

\* A pass over one color that appends the missing room centerpoints only.
GrowColorWithoutCorridors(each_color, alpha, beta, horizontal_centerpoint, vertical_centerpoint) ==
    IF \/ Contains(each_color, alpha)
       \/ Contains(each_color, beta)
       \/ Contains(each_color, horizontal_centerpoint)
       \/ Contains(each_color, vertical_centerpoint)
    THEN each_color \o (IF Contains(each_color, alpha) THEN <<>> ELSE <<alpha>>)
                    \o (IF Contains(each_color, beta) THEN <<>> ELSE <<beta>>)
    ELSE each_color

\* One pass of "for each_color in list_of_room_connection_colors" over one
\* color: the flags are set by the scan, then the missing points are appended.
GrowColor(each_color, alpha, beta, horizontal_centerpoint, vertical_centerpoint) ==
    LET do_these_centerpoints_connect_to_this_color ==
            \/ Contains(each_color, alpha)
            \/ Contains(each_color, beta)
            \/ Contains(each_color, horizontal_centerpoint)
            \/ Contains(each_color, vertical_centerpoint)
        Missing(point) == IF Contains(each_color, point) THEN <<>> ELSE <<point>>
    IN  IF do_these_centerpoints_connect_to_this_color
        THEN each_color \o Missing(alpha) \o Missing(beta)
                 \o Missing(horizontal_centerpoint) \o Missing(vertical_centerpoint)
        ELSE each_color

\* The component tracking done for one new corridor.
UpdateColors(colors, alpha, beta, horizontal_centerpoint, vertical_centerpoint) ==
    IF Len(colors) = 0
    THEN <<<<alpha, beta, horizontal_centerpoint, vertical_centerpoint>>>>
    ELSE LET does_this_room_fit_in_any_color ==
                 \E i \in 1..Len(colors) :
                     \/ Contains(colors[i], alpha)
                     \/ Contains(colors[i], beta)
                     \/ Contains(colors[i], horizontal_centerpoint)
                     \/ Contains(colors[i], vertical_centerpoint)
             grown == [i \in 1..Len(colors) |->
                          GrowColor(colors[i], alpha, beta,
                                    horizontal_centerpoint, vertical_centerpoint)]
         IN  IF does_this_room_fit_in_any_color
             THEN grown
             ELSE Append(grown, <<alpha, beta, horizontal_centerpoint, vertical_centerpoint>>)

\* ------------------------------------------------ MarkII: merging the colors

RECURSIVE SumOfCoordinate(_, _, _)
SumOfCoordinate(color, k, i) ==
    IF i > Len(color) THEN 0 ELSE color[i][k] + SumOfCoordinate(color, k, i + 1)

\* <<average_x, average_y>> of a color, with floor division
AverageOf(color) ==
    <<SumOfCoordinate(color, 1, 1) \div Len(color), SumOfCoordinate(color, 2, 1) \div Len(color)>>

\* The loop "for each_beta_color_index in range(1, len(colors))": the index (a
\* python index, so >= 1) of the color whose average is nearest to alpha's.
RECURSIVE ClosestColorScan(_, _, _, _)
ClosestColorScan(colors, alpha_average, index, best_index) ==
    IF index > Len(colors) - 1 THEN best_index
    ELSE LET beta_average == AverageOf(colors[index + 1])
             best_average == AverageOf(colors[best_index + 1])
             shorter ==
                 \/ best_index = 0
                 \/ HypotenuseSquared(alpha_average[1], alpha_average[2],
                                      beta_average[1], beta_average[2])
                      < HypotenuseSquared(alpha_average[1], alpha_average[2],
                                          best_average[1], best_average[2])
         IN  ClosestColorScan(colors, alpha_average, index + 1,
                              IF shorter THEN index ELSE best_index)

which_beta_color_index_is_closest(colors) ==
    ClosestColorScan(colors, AverageOf(colors[1]), 1, 0)

\* The member of color nearest to the point target (the first such member).
RECURSIVE ClosestMemberScan(_, _, _, _)
ClosestMemberScan(color, target, i, best) ==
    IF i > Len(color) THEN best
    ELSE LET shorter ==
                 \/ best = None
                 \/ HypotenuseSquared(color[i][1], color[i][2], target[1], target[2])
                      < HypotenuseSquared(best[1], best[2], target[1], target[2])
         IN  ClosestMemberScan(color, target, i + 1, IF shorter THEN color[i] ELSE best)

\* The average of the color in place of its member nearest to the target.
TheAverageOfTheColor(color, target) == AverageOf(color)

ClosestMember(color, target) == ClosestMemberScan(color, target, 1, None)

\* A deletion that leaves the list as it is.
DeleteNothing(list, index) == list

\* del list[index], index a python index
DeleteAt(list, index) ==
    [i \in 1..(Len(list) - 1) |-> IF i < index + 1 THEN list[i] ELSE list[i + 1]]


\* ------------------------------------------------ the generators' steps

rectVars == <<rectangle_alpha, rectangle_beta, do_they_intersect, has_returned>>
sequentialVars == <<list_of_rooms, new_dungeon_map>>
linkVars == <<list_of_all_centerpoints, list_of_room_connection_colors,
              list_of_new_corridors, rooms_linked, passes_left>>
gridVars == <<the_dungeon_map, referenced>>

\* A position range that lets a room end on the last usable row or column.
PositionsUpToTheEdge(extent, size) == 1..(extent - size)

\* MarkII: random.randint(1, ((self.map_width - 1) - new_room_width)), and the
\* same for y with the height.
PositionsMarkII(extent, size) == 1..((extent - 1) - size)

\* Sequential: random.randint(1, self.map_width - new_room_width)
PositionsSequential(extent, size) == 1..(extent - size)

\* The test of a candidate that forgets the first accepted room.
PassesTestAgainstLaterRooms(candidate, rooms) ==
    \A i \in 2..Len(rooms) :
        ~check_these_two_rectangles_for_intersection(candidate, rooms[i])

\* The for loop over each_other_room: the candidate is appended when no room
\* accepted so far fails the intersection test against it.
PassesIntersectionTest(candidate, rooms) ==
    \A i \in 1..Len(rooms) :
        ~check_these_two_rectangles_for_intersection(candidate, rooms[i])

Init ==
    /\ generator \in {"MarkIIDungeonMapGenerator", "DungeonMapGenerator"}
    /\ room_min_count \in 1..MaxRoomMinCount
    /\ pc = "start"
    /\ exception = "none"
    /\ each_new_room_attempt = 0
    /\ list_of_candidate_rooms = <<>>
    /\ list_of_all_centerpoints = <<>>
    /\ list_of_room_connection_colors = <<>>
    /\ list_of_new_corridors = <<>>
    /\ rooms_linked = 0
    /\ passes_left = 0
    /\ the_dungeon_map = <<>>
    /\ referenced = {}
    /\ list_of_rooms = <<>>
    /\ new_dungeon_map = <<>>
    /\ rectangle_alpha = None
    /\ rectangle_beta = None
    /\ do_they_intersect = FALSE
    /\ has_returned = FALSE
    /\ OthersIdle
    /\ CallsIdle

\* MarkII: generate_noise is called with all its arguments: the fields are set
\* (map_width and map_height to the supplied size minus one) and
\* list_of_candidate_rooms starts empty.
BeginGenerateNoise ==
    /\ generator = "MarkIIDungeonMapGenerator"
    /\ pc = "start"
    /\ pc' = "place"
    /\ list_of_candidate_rooms' = <<>>
    /\ UNCHANGED <<generator, room_min_count, exception, each_new_room_attempt>>
    /\ UNCHANGED <<linkVars, gridVars, sequentialVars, rectVars, otherVars>>

\* MarkII: one iteration of "for each_new_room_attempt in range(0, room_max_count)"
PlaceRoom ==
    /\ generator = "MarkIIDungeonMapGenerator"
    /\ pc = "place"
    /\ each_new_room_attempt < room_max_count
    /\ \E new_room_width \in room_min_size..room_max_size,
          new_room_height \in room_min_size..room_max_size :
         \E new_room_x \in PositionsMarkII(map_width, new_room_width),
            new_room_y \in PositionsMarkII(map_height, new_room_height) :
            LET new_room_candidate ==
                    <<new_room_x, new_room_y, new_room_width, new_room_height>>
            IN  list_of_candidate_rooms' =
                    IF PassesIntersectionTest(new_room_candidate, list_of_candidate_rooms)
                    THEN Append(list_of_candidate_rooms, new_room_candidate)
                    ELSE list_of_candidate_rooms
    /\ each_new_room_attempt' = each_new_room_attempt + 1
    /\ UNCHANGED <<generator, room_min_count, pc, exception>>
    /\ UNCHANGED <<linkVars, gridVars, sequentialVars, rectVars, otherVars>>

\* The end of a short batch that starts the next batch without emptying the list.
RetryBatchKeepingRooms ==
    /\ generator = "MarkIIDungeonMapGenerator"
    /\ pc = "place"
    /\ each_new_room_attempt = room_max_count
    /\ Len(list_of_candidate_rooms) < room_min_count
    /\ each_new_room_attempt' = 0
    /\ UNCHANGED <<generator, room_min_count, pc, exception, list_of_candidate_rooms>>
    /\ UNCHANGED <<linkVars, gridVars, sequentialVars, rectVars, otherVars>>

\* The end of a short batch that gives up with an error.
RetryBatchGivesUp ==
    /\ generator = "MarkIIDungeonMapGenerator"
    /\ pc = "place"
    /\ each_new_room_attempt = room_max_count
    /\ Len(list_of_candidate_rooms) < room_min_count
    /\ pc' = "error"
    /\ exception' = "ValueError"
    /\ UNCHANGED <<generator, room_min_count, each_new_room_attempt, list_of_candidate_rooms>>
    /\ UNCHANGED <<linkVars, gridVars, sequentialVars, rectVars, otherVars>>

\* MarkII: the batch ended with too few rooms: del list_of_candidate_rooms[:]
\* and the while loop starts the next batch.
RetryBatch ==
    /\ generator = "MarkIIDungeonMapGenerator"
    /\ pc = "place"
    /\ each_new_room_attempt = room_max_count
    /\ Len(list_of_candidate_rooms) < room_min_count
    /\ list_of_candidate_rooms' = <<>>
    /\ each_new_room_attempt' = 0
    /\ UNCHANGED <<generator, room_min_count, pc, exception>>
    /\ UNCHANGED <<linkVars, gridVars, sequentialVars, rectVars, otherVars>>

\* MarkII: the while loop ends; the rooms' centerpoints are collected.
StartLinking ==
    /\ generator = "MarkIIDungeonMapGenerator"
    /\ pc = "place"
    /\ each_new_room_attempt = room_max_count
    /\ Len(list_of_candidate_rooms) >= room_min_count
    /\ list_of_all_centerpoints' =
           [i \in 1..Len(list_of_candidate_rooms) |-> CenterOfRoom(list_of_candidate_rooms[i])]
    /\ pc' = "link"
    /\ UNCHANGED <<generator, room_min_count, exception, each_new_room_attempt,
                   list_of_candidate_rooms, list_of_room_connection_colors,
                   list_of_new_corridors, rooms_linked, passes_left>>
    /\ UNCHANGED <<gridVars, sequentialVars, rectVars, otherVars>>

\* MarkII: one iteration of the first-pass loop "for each_room in
\* list_of_candidate_rooms", for a room that has a closest centerpoint.  After
\* the last room the merge loop's range is fixed to the number of colors.
\* (A value computed once by the code is bound once, as the only element of a set.)
LinkRoom ==
    /\ generator = "MarkIIDungeonMapGenerator"
    /\ pc = "link"
    /\ rooms_linked < Len(list_of_candidate_rooms)
    /\ \E alpha \in {CenterOfRoom(list_of_candidate_rooms[rooms_linked + 1])} :
        /\ ~NoOtherCenterpoint(alpha, list_of_all_centerpoints)
        /\ \E beta \in {which_centerpoint_is_closest(alpha[1], alpha[2],
                                                     list_of_all_centerpoints)} :
            \E which_direction_first \in 0..1 :
              \E corridors \in {LCorridor(alpha[1], alpha[2], beta[1], beta[2],
                                          which_direction_first)} :
                \E horizontal_corridor_centerpoint \in {CenterOfRoom(corridors[1])},
                   vertical_corridor_centerpoint \in {CenterOfRoom(corridors[2])} :
                  \E colors \in {UpdateColors(list_of_room_connection_colors, alpha, beta,
                                              horizontal_corridor_centerpoint,
                                              vertical_corridor_centerpoint)} :
                    /\ list_of_new_corridors' = list_of_new_corridors \o corridors
                    /\ list_of_all_centerpoints' =
                           list_of_all_centerpoints \o
                               <<horizontal_corridor_centerpoint, vertical_corridor_centerpoint>>
                    /\ list_of_room_connection_colors' = colors
                    /\ IF rooms_linked + 1 = Len(list_of_candidate_rooms)
                       THEN /\ pc' = "merge"
                            /\ passes_left' = Len(colors)
                       ELSE UNCHANGED <<pc, passes_left>>
    /\ rooms_linked' = rooms_linked + 1
    /\ UNCHANGED <<generator, room_min_count, exception, each_new_room_attempt,
                   list_of_candidate_rooms>>
    /\ UNCHANGED <<gridVars, sequentialVars, rectVars, otherVars>>

\* MarkII: the first-pass iteration of a room with no other centerpoint:
\* which_centerpoint_is_closest is still None and which_centerpoint_is_closest[0]
\* raises TypeError.
LinkRoomFails ==
    /\ generator = "MarkIIDungeonMapGenerator"
    /\ pc = "link"
    /\ rooms_linked < Len(list_of_candidate_rooms)
    /\ NoOtherCenterpoint(CenterOfRoom(list_of_candidate_rooms[rooms_linked + 1]),
                          list_of_all_centerpoints)
    /\ pc' = "error"
    /\ exception' = "TypeError"
    /\ UNCHANGED <<generator, room_min_count, each_new_room_attempt, list_of_candidate_rooms>>
    /\ UNCHANGED <<linkVars, gridVars, sequentialVars, rectVars, otherVars>>

\* MarkII: one iteration of the merge loop with more than one color left:
\* alpha is color 0, beta the color nearest by average; a corridor joins their
\* mutually nearest members, beta is appended to alpha and deleted.
MergeColors ==
    /\ generator = "MarkIIDungeonMapGenerator"
    /\ pc = "merge"
    /\ passes_left > 0
    /\ Len(list_of_room_connection_colors) > 1
    /\ \E color_alpha \in {list_of_room_connection_colors[1]},
          beta_index \in {which_beta_color_index_is_closest(list_of_room_connection_colors)} :
        \E which_color_is_closest \in {list_of_room_connection_colors[beta_index + 1]} :
          \E alpha_point \in {ClosestMember(color_alpha, AverageOf(which_color_is_closest))},
             beta_point \in {ClosestMember(which_color_is_closest, AverageOf(color_alpha))} :
            \E which_direction_first \in 0..1 :
                 /\ list_of_new_corridors' =
                        list_of_new_corridors \o
                            LCorridor(alpha_point[1], alpha_point[2],
                                      beta_point[1], beta_point[2], which_direction_first)
                 /\ list_of_room_connection_colors' =
                        DeleteAt([list_of_room_connection_colors EXCEPT
                                     ![1] = color_alpha \o which_color_is_closest],
                                 beta_index)
    /\ passes_left' = passes_left - 1
    /\ UNCHANGED <<generator, room_min_count, pc, exception, each_new_room_attempt,
                   list_of_candidate_rooms, list_of_all_centerpoints, rooms_linked>>
    /\ UNCHANGED <<gridVars, sequentialVars, rectVars, otherVars>>

RECURSIVE AllIndices(_, _)
AllIndices(rectangles, i) ==
    IF i > Len(rectangles) THEN {}
    ELSE IndicesOf(rectangles[i]) \cup AllIndices(rectangles, i + 1)

\* MarkII: the iterations that are left of the merge loop find one color and do
\* nothing; then the grid of zeroes is built, the rooms and then the corridors
\* are written, and the grid is returned.  An index out of range raises
\* IndexError.
Rasterize ==
    /\ generator = "MarkIIDungeonMapGenerator"
    /\ pc = "merge"
    /\ passes_left = 0 \/ Len(list_of_room_connection_colors) <= 1
    /\ \E blank \in {ZeroGrid(map_height, map_width)},
          used \in {AllIndices(list_of_candidate_rooms \o list_of_new_corridors, 1)} :
           /\ referenced' = used
           /\ IF \E ix \in used : IndexOutOfRange(blank, ix[1], ix[2])
              THEN /\ pc' = "error"
                   /\ exception' = "IndexError"
                   /\ UNCHANGED the_dungeon_map
              ELSE /\ pc' = "done"
                   /\ UNCHANGED exception
                   /\ the_dungeon_map' =
                          WriteCorridors(WriteRooms(blank, list_of_candidate_rooms, 1),
                                         list_of_new_corridors, 1)
    /\ UNCHANGED <<generator, room_min_count, each_new_room_attempt, list_of_candidate_rooms>>
    /\ UNCHANGED <<linkVars, sequentialVars, rectVars, otherVars>>

\* ------------------------------------------------ Sequential generator

\* Sequential: generate_noise is called with all its arguments: the fields are
\* set (map_width and map_height to the supplied size minus one) and the grid
\* of zeroes is built, map_height rows of map_width entries, before any room
\* is placed.
BeginGenerateNoiseSequential ==
    /\ generator = "DungeonMapGenerator"
    /\ pc = "start"
    /\ pc' = "place"
    /\ new_dungeon_map' = ZeroGrid(map_height, map_width)
    /\ list_of_rooms' = <<>>
    /\ UNCHANGED <<generator, room_min_count, exception, each_new_room_attempt,
                   list_of_candidate_rooms>>
    /\ UNCHANGED <<linkVars, gridVars, rectVars, otherVars>>

\* Sequential: one iteration of "for each_room_attempt_number in range(0, room_max_count)"
PlaceRoomSequential ==
    /\ generator = "DungeonMapGenerator"
    /\ pc = "place"
    /\ each_new_room_attempt < room_max_count
    /\ \E new_room_width \in room_min_size..room_max_size,
          new_room_height \in room_min_size..room_max_size :
         \E new_room_upperleft_x \in PositionsSequential(map_width, new_room_width),
            new_room_upperleft_y \in PositionsSequential(map_height, new_room_height) :
            LET candidate == <<new_room_upperleft_x, new_room_upperleft_y,
                               new_room_width, new_room_height>>
            IN  list_of_rooms' =
                    IF PassesIntersectionTest(candidate, list_of_rooms)
                    THEN Append(list_of_rooms, candidate)
                    ELSE list_of_rooms
    /\ each_new_room_attempt' = each_new_room_attempt + 1
    /\ UNCHANGED <<generator, room_min_count, pc, exception, list_of_candidate_rooms,
                   new_dungeon_map>>
    /\ UNCHANGED <<linkVars, gridVars, rectVars, otherVars>>

\* Sequential: the batch ended with too few rooms: del list_of_rooms, and the
\* while loop starts the next batch with list_of_rooms = [].
RetryBatchSequential ==
    /\ generator = "DungeonMapGenerator"
    /\ pc = "place"
    /\ each_new_room_attempt = room_max_count
    /\ Len(list_of_rooms) < room_min_count
    /\ list_of_rooms' = <<>>
    /\ each_new_room_attempt' = 0
    /\ UNCHANGED <<generator, room_min_count, pc, exception, list_of_candidate_rooms,
                   new_dungeon_map>>
    /\ UNCHANGED <<linkVars, gridVars, rectVars, otherVars>>

\* Sequential: enough rooms: are_there_enough_rooms_yet = True ends the while loop.
StartCarvingSequential ==
    /\ generator = "DungeonMapGenerator"
    /\ pc = "place"
    /\ each_new_room_attempt = room_max_count
    /\ Len(list_of_rooms) >= room_min_count
    /\ pc' = "carve"
    /\ UNCHANGED <<generator, room_min_count, exception, each_new_room_attempt,
                   list_of_candidate_rooms>>
    /\ UNCHANGED <<linkVars, gridVars, sequentialVars, rectVars, otherVars>>

\* Sequential: the first iteration of "for each_completed_room in list_of_rooms":
\* the room is carved into still-zero cells, which_direction_first is drawn, and
\* self.return_the_center_of_this_rectangle() is called without its four
\* arguments, which raises TypeError before any corridor is defined.  (The list
\* is never empty here: the first attempt of a batch is always accepted.)
CarveFirstRoomSequential ==
    /\ generator = "DungeonMapGenerator"
    /\ pc = "carve"
    /\ Len(list_of_rooms) > 0
    /\ new_dungeon_map' = WriteIfUncarved(new_dungeon_map, list_of_rooms[1])
    /\ pc' = "error"
    /\ exception' = "TypeError"
    /\ UNCHANGED <<generator, room_min_count, each_new_room_attempt,
                   list_of_candidate_rooms, list_of_rooms>>
    /\ UNCHANGED <<linkVars, gridVars, rectVars, otherVars>>

Next ==
    \/ BeginGenerateNoise
    \/ BeginGenerateNoiseSequential
    \/ PlaceRoom
    \/ RetryBatch
    \/ StartLinking
    \/ LinkRoom
    \/ LinkRoomFails
    \/ MergeColors
    \/ Rasterize
    \/ PlaceRoomSequential
    \/ RetryBatchSequential
    \/ StartCarvingSequential
    \/ CarveFirstRoomSequential

Spec == Init /\ [][Next]_vars

\* The calls whose room_min_count may also be more than a batch can place.
InitShortOfRooms ==
    /\ generator \in {"MarkIIDungeonMapGenerator", "DungeonMapGenerator"}
    /\ room_min_count \in
           (1..MaxRoomMinCount)
               \cup ((RoomMaxCount + 1)..(RoomMaxCount + MaxExcessRoomMinCount))
    /\ pc = "start"
    /\ exception = "none"
    /\ each_new_room_attempt = 0
    /\ list_of_candidate_rooms = <<>>
    /\ list_of_all_centerpoints = <<>>
    /\ list_of_room_connection_colors = <<>>
    /\ list_of_new_corridors = <<>>
    /\ rooms_linked = 0
    /\ passes_left = 0
    /\ the_dungeon_map = <<>>
    /\ referenced = {}
    /\ list_of_rooms = <<>>
    /\ new_dungeon_map = <<>>
    /\ rectangle_alpha = None
    /\ rectangle_beta = None
    /\ do_they_intersect = FALSE
    /\ has_returned = FALSE
    /\ OthersIdle
    /\ CallsIdle

SpecShortOfRooms == InitShortOfRooms /\ [][Next]_vars

\* ------------------------------------------ the corridor helpers on their own

CorridorEndpoints ==
    {<<x, y>> : x \in (-MaxCorridorCoord)..MaxCorridorCoord,
                y \in (-MaxCorridorCoord)..MaxCorridorCoord}

InitCorridor ==
    /\ IdleGenerator
    /\ OthersIdle
    /\ rectangle_alpha = None
    /\ rectangle_beta = None
    /\ do_they_intersect = FALSE
    /\ has_returned = FALSE
    /\ corridor_alpha \in CorridorEndpoints
    /\ corridor_beta \in CorridorEndpoints
    /\ new_corridor = None
    /\ new_l_corridor = None
    /\ lookup_cell = None
    /\ lookup_corner = None
    /\ gradient_lookups = None

\* define_corridor(which_orientation, x, y, x2, y2) is called.
CallDefineCorridor ==
    /\ corridor_alpha # None
    /\ new_corridor = None
    /\ \E which_orientation \in {"horizontal", "vertical"} :
         new_corridor' =
             <<which_orientation,
               define_corridor(which_orientation, corridor_alpha[1], corridor_alpha[2],
                               corridor_beta[1], corridor_beta[2])>>
    /\ UNCHANGED <<generator, room_min_count, pc, exception, each_new_room_attempt,
                   list_of_candidate_rooms, linkVars, gridVars, sequentialVars, rectVars,
                   scanVars, noiseVars, corridor_alpha, corridor_beta, new_l_corridor,
                   lookup_cell, lookup_corner, gradient_lookups>>

\* which_direction_first is drawn and the horizontal and the vertical corridor
\* between the two centerpoints are defined, as the linking loops do.
CallLCorridor ==
    /\ corridor_alpha # None
    /\ new_l_corridor = None
    /\ \E which_direction_first \in 0..1 :
         new_l_corridor' =
             <<which_direction_first>>
                 \o LCorridor(corridor_alpha[1], corridor_alpha[2],
                              corridor_beta[1], corridor_beta[2], which_direction_first)
    /\ UNCHANGED <<generator, room_min_count, pc, exception, each_new_room_attempt,
                   list_of_candidate_rooms, linkVars, gridVars, sequentialVars, rectVars,
                   scanVars, noiseVars, corridor_alpha, corridor_beta, new_corridor,
                   lookup_cell, lookup_corner, gradient_lookups>>

NextCorridor ==
    \/ CallDefineCorridor
    \/ CallLCorridor

SpecCorridor == InitCorridor /\ [][NextCorridor]_vars

\* ------------------------------------------------ RoomFilledMapGenerator

\* The two dungeon generators are not running: their lists are empty.
DungeonListsEmpty ==
    /\ room_min_count = 0
    /\ each_new_room_attempt = 0
    /\ list_of_candidate_rooms = <<>>
    /\ list_of_all_centerpoints = <<>>
    /\ list_of_room_connection_colors = <<>>
    /\ list_of_new_corridors = <<>>
    /\ rooms_linked = 0
    /\ passes_left = 0
    /\ the_dungeon_map = <<>>
    /\ referenced = {}
    /\ list_of_rooms = <<>>
    /\ rectangle_alpha = None
    /\ rectangle_beta = None
    /\ do_they_intersect = FALSE
    /\ has_returned = FALSE
    /\ CallsIdle

dungeonVars == <<room_min_count, each_new_room_attempt, list_of_candidate_rooms,
                 linkVars, gridVars, list_of_rooms, rectVars, callVars>>

\* self.map_width and self.map_height of the RoomFilled generator: the
\* supplied size, not decremented.
filled_map_width == FilledMapWidth
filled_map_height == FilledMapHeight

\* A check that looks only at the three tiles of the row above.
TilesAboveAreZero(grid, row, col) ==
    \A each_nearby_tile_x \in -1..1 : Cell(grid, row - 1, col + each_nearby_tile_x) = 0

\* The loops over each_nearby_tile_y and each_nearby_tile_x in range(-1, 2):
\* none of the nine tiles around and at (row, col) is carved.
NearbyTilesAreZero(grid, row, col) ==
    \A each_nearby_tile_y \in -1..1 : \A each_nearby_tile_x \in -1..1 :
        Cell(grid, row + each_nearby_tile_y, col + each_nearby_tile_x) = 0

\* "adjust to fit": a size that would reach the last index of the row (or of
\* the column) is cut so that start + size equals that index.
AdjustedToFit(start, size, length) ==
    IF start + size >= length - 1
    THEN size - (start + size - (length - 1))
    ELSE size

\* The loop over each_next_unit_of_width: room_max_width counts the units from
\* the first on whose nine tiles are all 0; the first unit with a carved tile
\* clears continue_incrementing_room_width for good.
RECURSIVE RoomMaxWidthScan(_, _, _, _, _, _, _)
RoomMaxWidthScan(grid, row, col, each_next_unit_of_width, new_room_width, continue_incrementing_room_width, room_max_width) ==
    IF each_next_unit_of_width >= new_room_width THEN room_max_width
    ELSE LET still == continue_incrementing_room_width
                          /\ NearbyTilesAreZero(grid, row, col + each_next_unit_of_width)
         IN  RoomMaxWidthScan(grid, row, col, each_next_unit_of_width + 1, new_room_width,
                              still, IF still THEN room_max_width + 1 ELSE room_max_width)

\* The loop over each_next_unit_of_height: room_height_decrementor counts the
\* units that have a carved tile among their nine tiles.
RECURSIVE RoomHeightDecrementorScan(_, _, _, _, _)
RoomHeightDecrementorScan(grid, row, col, each_next_unit_of_height, new_room_height) ==
    IF each_next_unit_of_height >= new_room_height THEN 0
    ELSE (IF NearbyTilesAreZero(grid, row + each_next_unit_of_height, col) THEN 0 ELSE 1)
         + RoomHeightDecrementorScan(grid, row, col, each_next_unit_of_height + 1,
                                     new_room_height)

\* The room <<x, y, w, h>> the loop body writes at tile (row, col) for the drawn
\* sizes, or None when should_we_start_a_room_here ends as 0.
RoomToStartHere(grid, row, col, drawn_width, drawn_height) ==
    LET fitted_width == AdjustedToFit(col, drawn_width, Len(grid[row + 1]))
        fitted_height == AdjustedToFit(row, drawn_height, Len(grid))
        new_room_width == RoomMaxWidthScan(grid, row, col, 0, fitted_width, TRUE, 0)
        new_room_height ==
            fitted_height - RoomHeightDecrementorScan(grid, row, col, 0, fitted_height)
        should_we_start_a_room_here ==
            /\ fitted_width >= room_min_size
            /\ fitted_height >= room_min_size
            /\ NearbyTilesAreZero(grid, row, col)
            /\ new_room_width >= room_min_size
            /\ new_room_height >= room_min_size
    IN  IF should_we_start_a_room_here
        THEN <<col, row, new_room_width, new_room_height>>
        ELSE None

\* The tile the two for loops visit after (row, col): the next column of the
\* row, or column 1 of the next row; <<0, 0>> when the loops are over.
TileAfter(grid, row, col) ==
    IF col + 1 < Len(grid[row + 1]) - 1 THEN <<row, col + 1>>
    ELSE IF row + 1 < Len(grid) - 1 THEN <<row + 1, 1>>
    ELSE <<0, 0>>

InitRoomFilled ==
    /\ generator = "RoomFilledMapGenerator"
    /\ pc = "start"
    /\ exception = "none"
    /\ new_dungeon_map = <<>>
    /\ DungeonListsEmpty
    /\ OthersIdle

\* RoomFilled: generate_noise is called with all its arguments: the grid of
\* zeroes is built and the scan starts at tile (1, 1), or returns at once when
\* range(1, len - 1) is empty.
BeginGenerateNoiseRoomFilled ==
    /\ generator = "RoomFilledMapGenerator"
    /\ pc = "start"
    /\ new_dungeon_map' = ZeroGrid(filled_map_height, filled_map_width)
    /\ IF filled_map_height > 2 /\ filled_map_width > 2
       THEN /\ pc' = "scan"
            /\ each_row_index' = 1
            /\ each_column_index' = 1
       ELSE /\ pc' = "done"
            /\ UNCHANGED scanVars
    /\ UNCHANGED <<generator, exception, dungeonVars, noiseVars>>

\* RoomFilled: the body of the two for loops for one tile: the sizes are drawn
\* and adjusted, the checks are made, and the room is written with += 1 when
\* should_we_start_a_room_here is still 1.  After the last tile the grid is
\* returned.
ScanTile ==
    /\ generator = "RoomFilledMapGenerator"
    /\ pc = "scan"
    /\ \E drawn_width \in room_min_size..room_max_size,
          drawn_height \in room_min_size..room_max_size :
         \E room \in {RoomToStartHere(new_dungeon_map, each_row_index, each_column_index,
                                      drawn_width, drawn_height)} :
            new_dungeon_map' =
                IF room = None THEN new_dungeon_map ELSE WriteRoom(new_dungeon_map, room)
    /\ \E next \in {TileAfter(new_dungeon_map, each_row_index, each_column_index)} :
         /\ each_row_index' = next[1]
         /\ each_column_index' = next[2]
         /\ pc' = IF next = <<0, 0>> THEN "done" ELSE "scan"
    /\ UNCHANGED <<generator, exception, dungeonVars, noiseVars>>

NextRoomFilled ==
    \/ BeginGenerateNoiseRoomFilled
    \/ ScanTile

SpecRoomFilled == InitRoomFilled /\ [][NextRoomFilled]_vars

\* C19: in every state of the scan and in the returned grid every cell is 0
\* or 1.
C19_NoRoomWritesOverAnother ==
    generator = "RoomFilledMapGenerator" =>
        \A row \in 1..Len(new_dungeon_map) : \A col \in 1..Len(new_dungeon_map[row]) :
            new_dungeon_map[row][col] \in {0, 1}

\* The scan is over and has left rooms both side by side and one below the
\* other: tile (1, 1) is carved, a carved tile follows an uncarved one further
\* along row 1, and a carved tile lies below an uncarved one in column 1.
C19_Witness ==
    /\ generator = "RoomFilledMapGenerator"
    /\ pc = "done"
    /\ Cell(new_dungeon_map, 1, 1) = 1
    /\ \E col \in 2..(Len(new_dungeon_map[1]) - 2) :
           /\ Cell(new_dungeon_map, 1, col) = 0
           /\ Cell(new_dungeon_map, 1, col + 1) = 1
    /\ \E row \in 2..(Len(new_dungeon_map) - 2) :
           /\ Cell(new_dungeon_map, row, 1) = 0
           /\ Cell(new_dungeon_map, row + 1, 1) = 1

\* ------------------------------------------------ PlasmaFractalGenerator

\* The numbers of the plasma generator are floats that are sums and halves of
\* integers.  A coordinate or extent v is held as the integer v * CoordScale,
\* a z value as the integer z * ZScale; the scales are powers of two large
\* enough that every division of the modelled calls is exact, as it is in
\* binary floating point for these sizes.
RECURSIVE CeilLog2(_)
CeilLog2(n) == IF n <= 1 THEN 0 ELSE 1 + CeilLog2((n + 1) \div 2)

RECURSIVE Power(_, _)
Power(base, exponent) == IF exponent = 0 THEN 1 ELSE base * Power(base, exponent - 1)

CoordScale == Power(2, CeilLog2(MaxPlasmaSize))
ZScale == Power(4, CeilLog2(MaxPlasmaSize) + 1)

\* self.minimum_separation_distance
minimum_separation_distance == 1
displacement_min == PlasmaDisplacementMin
displacement_max == PlasmaDisplacementMax

\* A call of plasma_recursion is <<x, y, supplied_width, supplied_height,
\* uleft_corner, uright_corner, lleft_corner, lright_corner>>.
CallX(call) == call[1]
CallY(call) == call[2]
CallWidth(call) == call[3]
CallHeight(call) == call[4]
CallCorners(call) == <<call[5], call[6], call[7], call[8]>>

\* A recursion that stops as soon as one extent is small enough.
SubdividesWhenBothLarge(call) ==
    /\ call[3] > CoordScale
    /\ call[4] > CoordScale

\* The if of plasma_recursion: the call subdivides.
Subdivides(call) ==
    \/ CallWidth(call) > minimum_separation_distance * CoordScale
    \/ CallHeight(call) > minimum_separation_distance * CoordScale

\* A leaf that stores its own upper-left corner value.
LeafValueIsUpperLeftCorner(call) == call[5]

\* new_z_value of a leaf: the mean of its four corners.
LeafValue(call) == (call[5] + call[6] + call[7] + call[8]) \div 4

\* The four recursive calls of a subdividing call, in the order they are made:
\* upper left, upper right, lower left, lower right.
Quadrants(call, random_midpoint_displacement) ==
    LET new_width == CallWidth(call) \div 2
        new_height == CallHeight(call) \div 2
        x == CallX(call)
        y == CallY(call)
        uleft_corner == call[5]
        uright_corner == call[6]
        lleft_corner == call[7]
        lright_corner == call[8]
        mid_z == ((uleft_corner + uright_corner + lleft_corner + lright_corner) \div 4)
                     + (random_midpoint_displacement * ZScale)
        top_z == (uleft_corner + uright_corner) \div 2
        bottom_z == (lleft_corner + lright_corner) \div 2
        left_z == (uleft_corner + lleft_corner) \div 2
        right_z == (uright_corner + lright_corner) \div 2
    IN  << <<x, y, new_width, new_height, uleft_corner, top_z, left_z, mid_z>>,
           <<x + new_width, y, new_width, new_height, top_z, uright_corner, mid_z, right_z>>,
           <<x, y + new_height, new_width, new_height, left_z, mid_z, lleft_corner, bottom_z>>,
           <<x + new_width, y + new_height, new_width, new_height,
             mid_z, right_z, bottom_z, lright_corner>> >>

\* int() of a coordinate that is not negative
IntOfCoordinate(v) == v \div CoordScale

\* The loop "for each_cell in self.saved_noise_array" from cell i on:
\* array[int(y)][int(x)] = z, a later cell overwriting an earlier one.
RECURSIVE Scatter(_, _, _)
Scatter(array, cells, i) ==
    IF i > Len(cells) THEN array
    ELSE Scatter([array EXCEPT ![IntOfCoordinate(cells[i][2]) + 1]
                                   [IntOfCoordinate(cells[i][1]) + 1] = cells[i][3]],
                 cells, i + 1)

\* The value the rows are filled with before the cells are written.
Sentinel == -1

PlasmaCornerValues == {0, MaxPlasmaCorner}

InitPlasma ==
    /\ generator = "PlasmaFractalGenerator"
    /\ pc = "start"
    /\ exception = "none"
    /\ new_dungeon_map = <<>>
    /\ DungeonListsEmpty
    /\ each_row_index = 0
    /\ each_column_index = 0
    /\ supplied_width \in 1..MaxPlasmaSize
    /\ supplied_height \in 1..MaxPlasmaSize
    /\ supplied_corners \in
           PlasmaCornerValues \X PlasmaCornerValues \X PlasmaCornerValues \X PlasmaCornerValues
    /\ pending_calls = <<>>
    /\ saved_noise_array = <<>>
    /\ array_to_return = <<>>
    /\ PerlinIdle
    /\ SimplexIdle

\* Plasma: generate_noise is called with x = 0, y = 0, the size and all four
\* corners: saved_noise_array is emptied and plasma_recursion is called.
BeginGenerateNoisePlasma ==
    /\ generator = "PlasmaFractalGenerator"
    /\ pc = "start"
    /\ pc' = "recurse"
    /\ saved_noise_array' = <<>>
    /\ pending_calls' =
           << <<0, 0, supplied_width * CoordScale, supplied_height * CoordScale,
                supplied_corners[1] * ZScale, supplied_corners[2] * ZScale,
                supplied_corners[3] * ZScale, supplied_corners[4] * ZScale>> >>
    /\ UNCHANGED <<generator, exception, new_dungeon_map, dungeonVars, scanVars,
                   supplied_width, supplied_height, supplied_corners, array_to_return,
                   perlinVars, simplexVars>>

\* Plasma: one call of plasma_recursion runs: it either draws a displacement
\* and makes its four recursive calls, or appends its [x, y, z] cell.
PlasmaRecursion ==
    /\ generator = "PlasmaFractalGenerator"
    /\ pc = "recurse"
    /\ pending_calls # <<>>
    /\ \E call \in {Head(pending_calls)} :
         IF Subdivides(call)
         THEN /\ \E random_midpoint_displacement \in displacement_min..displacement_max :
                   pending_calls' =
                       Quadrants(call, random_midpoint_displacement) \o Tail(pending_calls)
              /\ UNCHANGED saved_noise_array
         ELSE /\ pending_calls' = Tail(pending_calls)
              /\ saved_noise_array' =
                     Append(saved_noise_array,
                            <<CallX(call), CallY(call), LeafValue(call)>>)
    /\ UNCHANGED <<generator, pc, exception, new_dungeon_map, dungeonVars, scanVars,
                   supplied_width, supplied_height, supplied_corners, array_to_return,
                   perlinVars, simplexVars>>

\* Plasma: the recursion is over: the rows of -1 are built, every saved cell is
\* written at its rounded-down coordinates, and the array is returned.  An
\* index out of range raises IndexError.
FillArrayToReturn ==
    /\ generator = "PlasmaFractalGenerator"
    /\ pc = "recurse"
    /\ pending_calls = <<>>
    /\ IF \E i \in 1..Len(saved_noise_array) :
              \/ IntOfCoordinate(saved_noise_array[i][2]) >= supplied_height
              \/ IntOfCoordinate(saved_noise_array[i][1]) >= supplied_width
       THEN /\ pc' = "error"
            /\ exception' = "IndexError"
            /\ UNCHANGED array_to_return
       ELSE /\ pc' = "done"
            /\ UNCHANGED exception
            /\ array_to_return' =
                   Scatter([row \in 1..supplied_height |->
                               [col \in 1..supplied_width |-> Sentinel * ZScale]],
                           saved_noise_array, 1)
    /\ UNCHANGED <<generator, new_dungeon_map, dungeonVars, scanVars, supplied_width,
                   supplied_height, supplied_corners, pending_calls, saved_noise_array,
                   perlinVars, simplexVars>>

NextPlasma ==
    \/ BeginGenerateNoisePlasma
    \/ PlasmaRecursion
    \/ FillArrayToReturn

SpecPlasma == InitPlasma /\ [][NextPlasma]_vars

\* ------------------------------------------------ Python float arithmetic

\* A Python float is an IEEE 754 binary64 number.  The noise generators use
\* +, -, *, /, comparison and int() on floats; every one of these returns the
\* exact result rounded to 53 significant bits, ties to even.  The model
\* computes the same: a float is <<sign, significand, exponent>> with value
\* sign * significand * 2^exponent, the significand a natural number of at
\* most 53 bits held as a little-endian sequence of limbs (TLC's integers are
\* 32 bits wide), odd unless the float is zero.  The exponents the generators
\* reach are far inside the binary64 range, so overflow to infinity and
\* subnormal numbers do not occur.
LimbBits == 15
LimbBase == 32768
SignificandBits == 53

Max2(a, b) == IF a >= b THEN a ELSE b
Min2(a, b) == IF a <= b THEN a ELSE b

RECURSIVE NatTrim(_)
NatTrim(a) ==
    IF a = <<>> THEN a
    ELSE IF a[Len(a)] = 0 THEN NatTrim(SubSeq(a, 1, Len(a) - 1)) ELSE a

RECURSIVE NatOfInt(_)
NatOfInt(n) == IF n = 0 THEN <<>> ELSE <<n % LimbBase>> \o NatOfInt(n \div LimbBase)

RECURSIVE IntOfNat(_)
IntOfNat(a) == IF a = <<>> THEN 0 ELSE a[1] + (LimbBase * IntOfNat(Tail(a)))

Limb(a, i) == IF i <= Len(a) THEN a[i] ELSE 0

RECURSIVE NatAddFrom(_, _, _, _)
NatAddFrom(a, b, i, carry) ==
    IF i > Len(a) /\ i > Len(b)
    THEN IF carry = 0 THEN <<>> ELSE <<carry>>
    ELSE <<(Limb(a, i) + Limb(b, i) + carry) % LimbBase>>
             \o NatAddFrom(a, b, i + 1, (Limb(a, i) + Limb(b, i) + carry) \div LimbBase)

NatAdd(a, b) == NatAddFrom(a, b, 1, 0)

\* a - b for a >= b
RECURSIVE NatSubFrom(_, _, _, _)
NatSubFrom(a, b, i, borrow) ==
    IF i > Len(a) THEN <<>>
    ELSE IF a[i] - Limb(b, i) - borrow < 0
         THEN <<a[i] - Limb(b, i) - borrow + LimbBase>> \o NatSubFrom(a, b, i + 1, 1)
         ELSE <<a[i] - Limb(b, i) - borrow>> \o NatSubFrom(a, b, i + 1, 0)

NatSub(a, b) == NatTrim(NatSubFrom(a, b, 1, 0))

RECURSIVE NatCompareFrom(_, _, _)
NatCompareFrom(a, b, i) ==
    IF i = 0 THEN 0
    ELSE IF a[i] > b[i] THEN 1
    ELSE IF a[i] < b[i] THEN -1
    ELSE NatCompareFrom(a, b, i - 1)

\* -1, 0 or 1 as a < b, a = b or a > b
NatCompare(a, b) ==
    IF Len(a) > Len(b) THEN 1
    ELSE IF Len(a) < Len(b) THEN -1
    ELSE NatCompareFrom(a, b, Len(a))

\* a * d for one limb d
RECURSIVE NatMulLimbFrom(_, _, _, _)
NatMulLimbFrom(a, d, i, carry) ==
    IF i > Len(a)
    THEN IF carry = 0 THEN <<>> ELSE <<carry>>
    ELSE <<((a[i] * d) + carry) % LimbBase>>
             \o NatMulLimbFrom(a, d, i + 1, ((a[i] * d) + carry) \div LimbBase)

NatMulLimb(a, d) == IF d = 0 THEN <<>> ELSE NatMulLimbFrom(a, d, 1, 0)

NatShiftLimbs(a, k) == IF a = <<>> THEN a ELSE [j \in 1..k |-> 0] \o a

RECURSIVE NatMulFrom(_, _, _)
NatMulFrom(a, b, j) ==
    IF j > Len(b) THEN <<>>
    ELSE NatAdd(NatShiftLimbs(NatMulLimb(a, b[j]), j - 1), NatMulFrom(a, b, j + 1))

NatMul(a, b) == NatMulFrom(a, b, 1)

RECURSIVE PowerOfTwo(_)
PowerOfTwo(n) == IF n = 0 THEN 1 ELSE 2 * PowerOfTwo(n - 1)

\* a * 2^n
NatShiftLeft(a, n) ==
    NatShiftLimbs(NatMulLimb(a, PowerOfTwo(n % LimbBits)), n \div LimbBits)

\* a \div 2^r for r < LimbBits
NatShiftRightBits(a, r) ==
    NatTrim([i \in 1..Len(a) |->
                (a[i] \div PowerOfTwo(r))
                  + ((Limb(a, i + 1) % PowerOfTwo(r)) * PowerOfTwo(LimbBits - r))])

\* a \div 2^n
NatShiftRight(a, n) ==
    IF n \div LimbBits >= Len(a) THEN <<>>
    ELSE NatShiftRightBits(SubSeq(a, (n \div LimbBits) + 1, Len(a)), n % LimbBits)

RECURSIVE BitLength(_)
BitLength(n) == IF n = 0 THEN 0 ELSE 1 + BitLength(n \div 2)

NatBitLength(a) ==
    IF a = <<>> THEN 0 ELSE (LimbBits * (Len(a) - 1)) + BitLength(a[Len(a)])

RECURSIVE TrailingZeros(_)
TrailingZeros(n) == IF n % 2 = 1 THEN 0 ELSE 1 + TrailingZeros(n \div 2)

\* the number of zero bits below the lowest set bit of a # 0
RECURSIVE NatTrailingZeros(_)
NatTrailingZeros(a) ==
    IF a[1] = 0 THEN LimbBits + NatTrailingZeros(Tail(a)) ELSE TrailingZeros(a[1])

\* <<a \div d, a % d>> for one limb d, from limb i down; q holds the limbs of
\* the quotient above limb i and rem is the remainder so far.
RECURSIVE NatDivModLimbFrom(_, _, _, _, _)
NatDivModLimbFrom(a, d, i, q, rem) ==
    IF i = 0 THEN <<q, rem>>
    ELSE NatDivModLimbFrom(a, d, i - 1,
                           <<((rem * LimbBase) + a[i]) \div d>> \o q,
                           ((rem * LimbBase) + a[i]) % d)

\* One step of binary long division by b: the quotient and remainder so far
\* are state[1] and state[2], and bit is the next bit of the dividend.
NatDivModStep(b, state, bit) ==
    LET shifted == NatAdd(NatShiftLeft(state[2], 1), IF bit = 1 THEN <<1>> ELSE <<>>)
    IN  IF NatCompare(shifted, b) >= 0
        THEN <<NatAdd(NatShiftLeft(state[1], 1), <<1>>), NatSub(shifted, b)>>
        ELSE <<NatShiftLeft(state[1], 1), shifted>>

\* Then(v) for v the value of "value", which is computed once, before Then is.
Bind(value, Then(_)) == CHOOSE outcome \in {Then(v) : v \in {value}} : TRUE

\* The steps of binary long division by b for bits k down to 1 of one limb of
\* the dividend.
RECURSIVE NatDivModBits(_, _, _, _)
NatDivModBits(b, state, limb, k) ==
    IF k = 0 THEN state
    ELSE Bind(NatDivModStep(b, state, (limb \div PowerOfTwo(k - 1)) % 2),
              LAMBDA next : NatDivModBits(b, next, limb, k - 1))

\* <<a \div b, a % b>> by binary long division, from limb i of a down.
RECURSIVE NatDivModFrom(_, _, _, _)
NatDivModFrom(a, b, i, state) ==
    IF i = 0 THEN state
    ELSE Bind(NatDivModBits(b, state, a[i], LimbBits),
              LAMBDA next : NatDivModFrom(a, b, i - 1, next))

\* <<a \div b, a % b>> for b # 0; the remainder is a number when b is one
\* limb and a sequence of limbs otherwise, 0 or <<>> when the division is exact.
NatDivMod(a, b) ==
    IF Len(b) = 1
    THEN LET r == NatDivModLimbFrom(a, b[1], Len(a), <<>>, 0)
         IN  <<NatTrim(r[1]), IF r[2] = 0 THEN <<>> ELSE <<r[2]>> >>
    ELSE NatDivModFrom(a, b, Len(a), <<<<>>, <<>>>>)

Zero == <<0, <<>>, 0>>
Sign(f) == f[1]
Significand(f) == f[2]
Exponent(f) == f[3]

\* the float with the value sign * significand * 2^exponent, significand odd
Normalised(sign, significand, exponent) ==
    IF significand = <<>> THEN Zero
    ELSE LET zeros == NatTrailingZeros(significand)
         IN  <<sign, NatShiftRight(significand, zeros), exponent + zeros>>

\* significand with its lowest "drop" bits rounded away, ties to even
RoundedSignificand(significand, drop) ==
    LET kept == NatShiftRight(significand, drop)
        lost == NatSub(significand, NatShiftLeft(kept, drop))
        half == NatShiftLeft(<<1>>, drop - 1)
        up == \/ NatCompare(lost, half) > 0
              \/ NatCompare(lost, half) = 0 /\ kept[1] % 2 = 1
    IN  IF up THEN NatAdd(kept, <<1>>) ELSE kept

\* sign * significand * 2^exponent rounded to the nearest float
Rounded(sign, significand, exponent) ==
    IF NatBitLength(significand) <= SignificandBits
    THEN Normalised(sign, significand, exponent)
    ELSE Normalised(sign,
                    RoundedSignificand(significand,
                                       NatBitLength(significand) - SignificandBits),
                    exponent + (NatBitLength(significand) - SignificandBits))

\* float(n) of an integer n
FloatOfInt(n) ==
    IF n = 0 THEN Zero
    ELSE Rounded(IF n < 0 THEN -1 ELSE 1, NatOfInt(IF n < 0 THEN -n ELSE n), 0)

\* 2.0 ** n
FloatPowerOfTwo(n) == <<1, <<1>>, n>>

Negated(f) == <<-f[1], f[2], f[3]>>

\* -1, 0 or 1 as |a| < |b|, |a| = |b| or |a| > |b|, for a and b not zero
CompareMagnitudes(a, b) ==
    IF (a[3] + NatBitLength(a[2])) > (b[3] + NatBitLength(b[2])) THEN 1
    ELSE IF (a[3] + NatBitLength(a[2])) < (b[3] + NatBitLength(b[2])) THEN -1
    ELSE NatCompare(NatShiftLeft(a[2], a[3] - Min2(a[3], b[3])),
                    NatShiftLeft(b[2], b[3] - Min2(a[3], b[3])))

\* -1, 0 or 1 as a < b, a = b or a > b
FloatCompare(a, b) ==
    IF a[1] # b[1] THEN (IF a[1] > b[1] THEN 1 ELSE -1)
    ELSE IF a[1] = 0 THEN 0
    ELSE a[1] * CompareMagnitudes(a, b)

\* a + b
FloatAdd(a, b) ==
    IF a[1] = 0 THEN b
    ELSE IF b[1] = 0 THEN a
    ELSE LET exponent == Min2(a[3], b[3])
             left == NatShiftLeft(a[2], a[3] - exponent)
             right == NatShiftLeft(b[2], b[3] - exponent)
         IN  IF a[1] = b[1] THEN Rounded(a[1], NatAdd(left, right), exponent)
             ELSE IF NatCompare(left, right) = 0 THEN Zero
             ELSE IF NatCompare(left, right) > 0
                  THEN Rounded(a[1], NatSub(left, right), exponent)
                  ELSE Rounded(b[1], NatSub(right, left), exponent)

\* a - b
FloatSub(a, b) == FloatAdd(a, Negated(b))

\* a * b
FloatMul(a, b) ==
    IF a[1] = 0 \/ b[1] = 0 THEN Zero
    ELSE Rounded(a[1] * b[1], NatMul(a[2], b[2]), a[3] + b[3])

\* The number of bits the dividend is shifted left by so that the quotient has
\* at least two bits more than a float holds.
QuotientShift(a, b) ==
    Max2(0, (SignificandBits + 2 + NatBitLength(b[2])) - NatBitLength(a[2]))

\* a / b for b # 0: the quotient to SignificandBits + 2 bits or more, a last
\* bit added that is 1 when the division left a remainder, then rounded.
FloatDiv(a, b) ==
    IF a[1] = 0 THEN Zero
    ELSE IF b[2] = <<1>> THEN <<a[1] * b[1], a[2], a[3] - b[3]>>
    ELSE LET shift == QuotientShift(a, b)
             division == NatDivMod(NatShiftLeft(a[2], shift), b[2])
         IN  Rounded(a[1] * b[1],
                     NatAdd(NatShiftLeft(division[1], 1),
                            IF division[2] = <<>> THEN <<>> ELSE <<1>>),
                     a[3] - b[3] - shift - 1)

\* int(f): f rounded towards zero, as an integer
IntOfFloat(f) ==
    IF f[1] = 0 THEN 0
    ELSE IF f[3] >= 0 THEN f[1] * IntOfNat(NatShiftLeft(f[2], f[3]))
    ELSE f[1] * IntOfNat(NatShiftRight(f[2], -f[3]))

\* ------------------------------------------------ PerlinNoiseGenerator

One == FloatOfInt(1)

\* random.randint(0, 1000) / 1000.0
SampleOf(randint) == FloatDiv(FloatOfInt(randint), FloatOfInt(1000))

\* smooth_noise(x, y): the four neighbours of (x, y) in noise_array weighted
\* by the fractional parts of x and y.
smooth_noise(field, width, height, x, y) ==
    LET fractional_element_of_x == FloatSub(x, FloatOfInt(IntOfFloat(x)))
        fractional_element_of_y == FloatSub(y, FloatOfInt(IntOfFloat(y)))
        x1 == (IntOfFloat(x) + width) % width
        y1 == (IntOfFloat(y) + height) % height
        x2 == (x1 + width - 1) % width
        y2 == (y1 + height - 1) % height
    IN  FloatAdd(
          FloatAdd(
            FloatAdd(
              FloatAdd(Zero,
                       FloatMul(FloatMul(fractional_element_of_x, fractional_element_of_y),
                                field[y1 + 1][x1 + 1])),
              FloatMul(FloatMul(fractional_element_of_x,
                                FloatSub(One, fractional_element_of_y)),
                       field[y2 + 1][x1 + 1])),
            FloatMul(FloatMul(FloatSub(One, fractional_element_of_x),
                              fractional_element_of_y),
                     field[y1 + 1][x2 + 1])),
          FloatMul(FloatMul(FloatSub(One, fractional_element_of_x),
                            FloatSub(One, fractional_element_of_y)),
                   field[y2 + 1][x2 + 1]))

\* the number of cells of the rows in grid
CellCount(grid) ==
    IF grid = <<>> THEN 0
    ELSE ((Len(grid) - 1) * noise_width) + Len(grid[Len(grid)])

\* grid with value appended to its last row, a new row begun when the last one
\* is full
WithCell(grid, value) ==
    IF grid = <<>> \/ Len(grid[Len(grid)]) = noise_width
    THEN Append(grid, <<value>>)
    ELSE [grid EXCEPT ![Len(grid)] = Append(@, value)]

\* x and y of the cell the turbulence function is called for next
\* (each_x * frequency and each_y * frequency)
TurbulenceX == FloatMul(FloatOfInt(CellCount(result) % noise_width), frequency)
TurbulenceY == FloatMul(FloatOfInt(CellCount(result) \div noise_width), frequency)

\* size *= 1.0 of the argument octaves
InitialSize == FloatMul(octaves, One)

FrequencyChoices ==
    {FloatDiv(FloatOfInt(halves), FloatOfInt(2)) : halves \in 0..MaxFrequencyHalves}

OctavesChoices ==
    {FloatOfInt(n) : n \in 1..MaxOctaves}
        \cup {FloatPowerOfTwo(k) : k \in MinLog2Octaves..MaxLog2Octaves}

RandintChoices == {n \in 0..1000 : n % SampleStep = 0}

InitPerlin ==
    /\ generator = "PerlinNoiseGenerator"
    /\ pc = "start"
    /\ exception = "none"
    /\ new_dungeon_map = <<>>
    /\ DungeonListsEmpty
    /\ each_row_index = 0
    /\ each_column_index = 0
    /\ PlasmaIdle
    /\ SimplexIdle
    /\ noise_array = <<>>
    /\ noise_width = 0
    /\ noise_height = 0
    /\ frequency \in FrequencyChoices
    /\ octaves \in OctavesChoices
    /\ turbulence_size = <<>>
    /\ noise_value = <<>>
    /\ result = <<>>

\* Perlin: generate_noise(width, height, frequency, octaves) is called: the
\* noise array is cleared and the turbulence_size is saved.
BeginGenerateNoisePerlin ==
    /\ generator = "PerlinNoiseGenerator"
    /\ pc = "start"
    /\ pc' = "seed"
    /\ noise_array' = <<>>
    /\ \E width \in 1..MaxNoiseWidth : noise_width' = width
    /\ \E height \in 1..MaxNoiseHeight : noise_height' = height
    /\ UNCHANGED <<generator, exception, new_dungeon_map, dungeonVars, scanVars,
                   plasmaVars, simplexVars, frequency, octaves, turbulence_size, noise_value, result>>

\* Perlin: one random sample is appended to the noise array; after the last
\* one the result is empty and the turbulence function is called for the
\* first cell.
SeedNoiseArray ==
    /\ generator = "PerlinNoiseGenerator"
    /\ pc = "seed"
    /\ \E randint \in RandintChoices :
         noise_array' = WithCell(noise_array, SampleOf(randint))
    /\ IF CellCount(noise_array) + 1 = noise_width * noise_height
       THEN /\ pc' = "turbulate"
            /\ turbulence_size' = InitialSize
            /\ noise_value' = Zero
       ELSE UNCHANGED <<pc, turbulence_size, noise_value>>
    /\ UNCHANGED <<generator, exception, new_dungeon_map, dungeonVars, scanVars,
                   plasmaVars, simplexVars, noise_width, noise_height, frequency, octaves, result>>

\* Perlin: one pass of the while loop of totally_justified_turbulence_function.
TurbulenceIteration ==
    /\ generator = "PerlinNoiseGenerator"
    /\ pc = "turbulate"
    /\ FloatCompare(turbulence_size, One) >= 0
    /\ noise_value' =
           FloatAdd(noise_value,
                    FloatMul(smooth_noise(noise_array, noise_width, noise_height,
                                          FloatDiv(TurbulenceX, turbulence_size),
                                          FloatDiv(TurbulenceY, turbulence_size)),
                             turbulence_size))
    /\ turbulence_size' = FloatDiv(turbulence_size, FloatOfInt(2))
    /\ UNCHANGED <<generator, pc, exception, new_dungeon_map, dungeonVars, scanVars,
                   plasmaVars, simplexVars, noise_array, noise_width, noise_height, frequency,
                   octaves, result>>

\* Perlin: the while loop is over: the turbulence function returns
\* noise_value / initial_size * 128.0 and int() of it is appended to the
\* result; the function is called for the next cell, or the result is
\* returned after the last one.
TurbulateCell ==
    /\ generator = "PerlinNoiseGenerator"
    /\ pc = "turbulate"
    /\ FloatCompare(turbulence_size, One) < 0
    /\ result' = WithCell(result,
                          IntOfFloat(FloatMul(FloatDiv(noise_value, InitialSize),
                                              FloatOfInt(128))))
    /\ IF CellCount(result) + 1 = noise_width * noise_height
       THEN /\ pc' = "done"
            /\ UNCHANGED <<turbulence_size, noise_value>>
       ELSE /\ pc' = "turbulate"
            /\ turbulence_size' = InitialSize
            /\ noise_value' = Zero
    /\ UNCHANGED <<generator, exception, new_dungeon_map, dungeonVars, scanVars,
                   plasmaVars, simplexVars, noise_array, noise_width, noise_height, frequency, octaves>>

NextPerlin ==
    \/ BeginGenerateNoisePerlin
    \/ SeedNoiseArray
    \/ TurbulenceIteration
    \/ TurbulateCell

SpecPerlin == InitPerlin /\ [][NextPerlin]_vars

\* ------------------------------------------------ SimplexNoiseGenerator

\* self.noise_array_seed as __init__ sets it
InitialNoiseArraySeed ==
    <<151, 160, 137, 91, 90, 15, 131, 13, 201, 95, 96, 53, 194, 233, 7, 225,
    140, 36, 103, 30, 69, 142, 8, 99, 37, 240, 21, 10, 23, 190, 6, 148,
    247, 120, 234, 75, 0, 26, 197, 62, 94, 252, 219, 203, 117, 35, 11, 32,
    57, 177, 33, 88, 237, 149, 56, 87, 174, 20, 125, 136, 171, 168, 68, 175,
    74, 165, 71, 134, 139, 48, 27, 166, 77, 146, 158, 231, 83, 111, 229, 122,
    60, 211, 133, 230, 220, 105, 92, 41, 55, 46, 245, 40, 244, 102, 143, 54,
    65, 25, 63, 161, 1, 216, 80, 73, 209, 76, 132, 187, 208, 89, 18, 169,
    200, 196, 135, 130, 116, 188, 159, 86, 164, 100, 109, 198, 173, 186, 3, 64,
    52, 217, 226, 250, 124, 123, 5, 202, 38, 147, 118, 126, 255, 82, 85, 212,
    207, 206, 59, 227, 47, 16, 58, 17, 182, 189, 28, 42, 223, 183, 170, 213,
    119, 248, 152, 2, 44, 154, 163, 70, 221, 153, 101, 155, 167, 43, 172, 9,
    129, 22, 39, 253, 19, 98, 108, 110, 79, 113, 224, 232, 178, 185, 112, 104,
    218, 246, 97, 228, 251, 34, 242, 193, 238, 210, 144, 12, 191, 179, 162, 241,
    81, 51, 145, 235, 249, 14, 239, 107, 49, 192, 214, 31, 181, 199, 106, 157,
    184, 84, 204, 176, 115, 121, 50, 45, 127, 4, 150, 254, 138, 236, 205, 93,
    222, 114, 67, 29, 24, 72, 243, 141, 128, 195, 78, 66, 215, 61, 156, 180>>

\* self.hash_number, the default of supplied_hash
hash_number == 255

grad3 ==
    << <<1, 1, 0>>, <<-1, 1, 0>>, <<1, -1, 0>>, <<-1, -1, 0>>,
       <<1, 0, 1>>, <<-1, 0, 1>>, <<1, 0, -1>>, <<-1, 0, -1>>,
       <<0, 1, 1>>, <<0, -1, 1>>, <<0, 1, -1>>, <<0, -1, -1>> >>

\* math.sqrt(3.0)
SquareRootOfThree == <<1, <<9813, 26712, 27893, 110>>, -51>>

Half == FloatDiv(One, FloatOfInt(2))
F2 == FloatMul(Half, FloatSub(SquareRootOfThree, One))
G2 == FloatDiv(FloatSub(FloatOfInt(3), SquareRootOfThree), FloatOfInt(6))

\* a & b for a >= 0 and b >= 0
RECURSIVE BitAnd(_, _)
BitAnd(a, b) ==
    IF a = 0 \/ b = 0 THEN 0
    ELSE ((a % 2) * (b % 2)) + (2 * BitAnd(a \div 2, b \div 2))

\* random.randint(0, length - 1) of a shuffle whose draws follow "rule"
WhichNumberToPick(rule, length) == rule % length

\* One pass of the while loop of randomize_the_noise_array_seed:
\* state is <<noise_array_seed_handler, new_noise_array>>.
ShuffleStep(state, rule) ==
    LET which_number_to_pick == WhichNumberToPick(rule, Len(state[1]))
    IN  <<SubSeq(state[1], 1, which_number_to_pick)
              \o SubSeq(state[1], which_number_to_pick + 2, Len(state[1])),
          Append(state[2], state[1][which_number_to_pick + 1])>>

\* n passes of the loop
RECURSIVE ShuffleSteps(_, _, _)
ShuffleSteps(state, rule, n) ==
    IF n = 0 THEN state
    ELSE IF n = 1 THEN ShuffleStep(state, rule)
    ELSE Bind(ShuffleSteps(state, rule, n \div 2),
              LAMBDA halfway : ShuffleSteps(halfway, rule, n - (n \div 2)))

\* A shuffle that pops the numbers from self.noise_array_seed itself, so that
\* only the last number is left of it.
SeedPoppedByTheShuffle(rule) ==
    ShuffleSteps(<<noise_array_seed, <<>>>>, rule, Len(noise_array_seed) - 1)[1]

\* self.noise_array_seed after randomize_the_noise_array_seed: the loop pops
\* from noise_array_seed_handler, a list the numbers were copied into.
SeedLeftByTheShuffle(rule) == noise_array_seed

\* new_noise_array of randomize_the_noise_array_seed: the loop runs while more
\* than one number is left, and the last one is appended.
ShuffledSeed(rule) ==
    Bind(ShuffleSteps(<<noise_array_seed, <<>>>>, rule, Len(noise_array_seed) - 1),
         LAMBDA state : Append(state[2], state[1][1]))

\* double_the_noise_array
double_the_noise_array(array) == array \o array

\* generate_permutations_table
generate_permutations_table(array) ==
    [each_number \in 1..Len(array) |-> array[BitAnd(each_number - 1, hash_number) + 1]]

\* twodee_dot_product
twodee_dot_product(supplied_gradient, x, y) ==
    FloatAdd(FloatMul(FloatOfInt(supplied_gradient[1]), x),
             FloatMul(FloatOfInt(supplied_gradient[2]), y))

\* The contribution n0, n1 or n2 of one corner of the simplex.
CornerContribution(gradient_index, x, y) ==
    Bind(FloatSub(FloatSub(Half, FloatMul(x, x)), FloatMul(y, y)),
         LAMBDA t :
           IF FloatCompare(t, Zero) < 0 THEN Zero
           ELSE Bind(FloatMul(t, t),
                     LAMBDA t_squared :
                       FloatMul(FloatMul(t_squared, t_squared),
                                twodee_dot_product(grad3[gradient_index + 1], x, y))))

\* A raw noise that is not shifted up by one before it is scaled.
NumberToReturnWithoutOffset(n0, n1, n2) ==
    FloatMul(FloatMul(FloatOfInt(70), FloatAdd(FloatAdd(n0, n1), n2)), FloatOfInt(128))

\* number_to_return of generate_raw_unoctaved_noise for the three contributions
NumberToReturn(n0, n1, n2) ==
    FloatMul(FloatAdd(FloatMul(FloatOfInt(70), FloatAdd(FloatAdd(n0, n1), n2)), One),
             FloatOfInt(128))

\* The cell taken as it is, without the "& self.hash_number".
UnhashedCell(i, j) == <<i, j>>

\* <<ii, jj>> of generate_raw_unoctaved_noise: int(i) & self.hash_number and
\* int(j) & self.hash_number
HashedCell(i, j) == <<BitAnd(i, hash_number), BitAnd(j, hash_number)>>

\* generate_raw_unoctaved_noise from the simplex cell (i, j) and the offsets
\* (x0, y0) on
RawNoiseOfCell(table, i, j, x0, y0) ==
    LET i1 == IF FloatCompare(x0, y0) > 0 THEN 1 ELSE 0
        j1 == 1 - i1
        ii == HashedCell(i, j)[1]
        jj == HashedCell(i, j)[2]
        gradient_i_zero == table[ii + table[jj + 1] + 1] % 12
        gradient_i_one == table[ii + i1 + table[jj + j1 + 1] + 1] % 12
        gradient_i_two == table[ii + 1 + table[jj + 1 + 1] + 1] % 12
    IN  Bind(CornerContribution(gradient_i_zero, x0, y0),
          LAMBDA n0 :
            Bind(CornerContribution(gradient_i_one,
                                    FloatAdd(FloatSub(x0, FloatOfInt(i1)), G2),
                                    FloatAdd(FloatSub(y0, FloatOfInt(j1)), G2)),
              LAMBDA n1 :
                Bind(CornerContribution(
                         gradient_i_two,
                         FloatAdd(FloatSub(x0, One), FloatMul(FloatOfInt(2), G2)),
                         FloatAdd(FloatSub(y0, One), FloatMul(FloatOfInt(2), G2))),
                  LAMBDA n2 : NumberToReturn(n0, n1, n2))))

\* generate_raw_unoctaved_noise(supplied_x, supplied_y)
generate_raw_unoctaved_noise(table, x, y) ==
    Bind(FloatMul(FloatAdd(x, y), F2),
      LAMBDA s :
        Bind(<<IntOfFloat(FloatAdd(x, s)), IntOfFloat(FloatAdd(y, s))>>,
          LAMBDA cell :
            Bind(FloatMul(FloatOfInt(cell[1] + cell[2]), G2),
              LAMBDA t :
                Bind(<<FloatSub(x, FloatSub(FloatOfInt(cell[1]), t)),
                       FloatSub(y, FloatSub(FloatOfInt(cell[2]), t))>>,
                  LAMBDA offsets :
                    RawNoiseOfCell(table, cell[1], cell[2], offsets[1], offsets[2])))))

\* The octave loop of generate_octaved_noise from the given octave on; sums is
\* <<total_noise_for_this_cell, frequency, amplitude, max_amplitude>>.
RECURSIVE OctaveLoop(_, _, _, _, _, _)
OctaveLoop(table, each_x, each_y, sums, each_octave, fade) ==
    IF each_octave >= octaves THEN sums
    ELSE Bind(<<FloatAdd(sums[1],
                         FloatMul(generate_raw_unoctaved_noise(
                                      table,
                                      FloatMul(FloatOfInt(each_x), sums[2]),
                                      FloatMul(FloatOfInt(each_y), sums[2])),
                                  sums[3])),
                FloatMul(sums[2], FloatOfInt(2)),
                FloatMul(sums[3], fade),
                FloatAdd(sums[4], sums[3])>>,
              LAMBDA next_sums :
                OctaveLoop(table, each_x, each_y, next_sums, each_octave + 1, fade))

\* generate_octaved_noise(supplied_x, supplied_y, scale, octaves, persistence)
generate_octaved_noise(table, each_x, each_y) ==
    Bind(OctaveLoop(table, each_x, each_y, <<Zero, scale, One, Zero>>, 0, persistence),
         LAMBDA sums : FloatDiv(sums[1], sums[4]))

ScaleChoices ==
    {FloatDiv(FloatOfInt(tenths), FloatOfInt(10)) : tenths \in {MinScaleTenths, MaxScaleTenths}}

PersistenceChoices ==
    {FloatDiv(FloatOfInt(halves), FloatOfInt(2)) : halves \in 0..Min2(2, MaxPersistenceHalves)}

\* The number of cells of the rows computed so far, and the rows with one more.
SimplexCellCount ==
    IF array_to_be_returned = <<>> THEN 0
    ELSE ((Len(array_to_be_returned) - 1) * supplied_x)
           + Len(array_to_be_returned[Len(array_to_be_returned)])

WithSimplexCell(value) ==
    IF array_to_be_returned = <<>>
         \/ Len(array_to_be_returned[Len(array_to_be_returned)]) = supplied_x
    THEN Append(array_to_be_returned, <<value>>)
    ELSE [array_to_be_returned EXCEPT ![Len(array_to_be_returned)] = Append(@, value)]

\* The state after SimplexNoiseGenerator(): __init__ has shuffled the seed,
\* doubled it and built the table.  The arguments of the calls to come are
\* drawn here and are the same for every call.
InitSimplex ==
    /\ generator = "SimplexNoiseGenerator"
    /\ pc = "start"
    /\ exception = "none"
    /\ new_dungeon_map = <<>>
    /\ DungeonListsEmpty
    /\ each_row_index = 0
    /\ each_column_index = 0
    /\ PlasmaIdle
    /\ noise_array_seed = InitialNoiseArraySeed
    /\ \E rule \in 0..MaxShuffleRule :
         /\ noise_array = double_the_noise_array(ShuffledSeed(rule))
         /\ permutations_table =
                generate_permutations_table(double_the_noise_array(ShuffledSeed(rule)))
         /\ explicitly_seeded_table = permutations_table
         /\ random_draws = rule
    /\ noise_width = 0
    /\ noise_height = 0
    /\ frequency = <<>>
    /\ octaves \in 1..MaxSimplexOctaves
    /\ turbulence_size = <<>>
    /\ noise_value = <<>>
    /\ result = <<>>
    /\ supplied_x \in 1..MaxSimplexWidth
    /\ supplied_y \in 1..MaxSimplexHeight
    /\ scale \in ScaleChoices
    /\ persistence \in PersistenceChoices
    /\ randseed \in 1..MaxRandseed
    /\ array_to_be_returned = <<>>
    /\ returned_grids = <<>>

\* A reseed whose draws leave the noise array and the table as they were.
ReshuffleKeepingTheTable(random_number_seed) ==
    \E rule \in 0..MaxShuffleRule :
        /\ random_draws' = rule
        /\ UNCHANGED <<noise_array_seed, noise_array, permutations_table>>

\* Simplex: randomize_the_noise_array_seed(random_number_seed): the seed is
\* shuffled with draws of the random source, doubled, and the table rebuilt.
\* random_number_seed is not used.
Reshuffle(random_number_seed) ==
    \E rule \in 0..MaxShuffleRule :
      \E new_noise_array \in {double_the_noise_array(ShuffledSeed(rule))} :
        /\ random_draws' = rule
        /\ noise_array_seed' = SeedLeftByTheShuffle(rule)
        /\ noise_array' = new_noise_array
        /\ permutations_table' = generate_permutations_table(new_noise_array)

\* Simplex: generate_noise(supplied_x, supplied_y, scale, octaves,
\* persistence, randseed) is called: it reshuffles and starts an empty array.
BeginGenerateNoiseSimplex ==
    /\ generator = "SimplexNoiseGenerator"
    /\ pc = "start"
    /\ Len(returned_grids) < MaxSimplexCalls
    /\ Reshuffle(randseed)
    /\ array_to_be_returned' = <<>>
    /\ pc' = "cells"
    /\ UNCHANGED <<generator, exception, new_dungeon_map, dungeonVars, scanVars,
                   plasmaVars, noise_width, noise_height, frequency, octaves,
                   turbulence_size, noise_value, result, explicitly_seeded_table,
                   supplied_x, supplied_y, scale, persistence, randseed, returned_grids>>

\* Simplex: the next cell is computed; after the last one the array is returned.
SimplexCell ==
    /\ generator = "SimplexNoiseGenerator"
    /\ pc = "cells"
    /\ \E rows \in {WithSimplexCell(generate_octaved_noise(
                                      permutations_table,
                                      SimplexCellCount % supplied_x,
                                      SimplexCellCount \div supplied_x))} :
         /\ array_to_be_returned' = rows
         /\ IF SimplexCellCount + 1 = supplied_x * supplied_y
            THEN /\ pc' = "start"
                 /\ returned_grids' = Append(returned_grids, rows)
            ELSE UNCHANGED <<pc, returned_grids>>
    /\ UNCHANGED <<generator, exception, new_dungeon_map, dungeonVars, scanVars,
                   plasmaVars, perlinVars, noise_array_seed, permutations_table,
                   explicitly_seeded_table,
                   random_draws,
                   supplied_x, supplied_y, scale, persistence, randseed>>

\* Simplex: randomize_the_noise_array_seed() is called between two calls of
\* generate_noise.
ExplicitReseed ==
    /\ generator = "SimplexNoiseGenerator"
    /\ pc = "start"
    /\ Len(returned_grids) < MaxSimplexCalls
    /\ Reshuffle(0)
    /\ explicitly_seeded_table' = permutations_table'
    /\ UNCHANGED <<generator, pc, exception, new_dungeon_map, dungeonVars, scanVars,
                   plasmaVars, noise_width, noise_height, frequency, octaves,
                   turbulence_size, noise_value, result,
                   supplied_x, supplied_y, scale, persistence, randseed,
                   array_to_be_returned, returned_grids>>

NextSimplex ==
    \/ BeginGenerateNoiseSimplex
    \/ SimplexCell
    \/ ExplicitReseed

SpecSimplex == InitSimplex /\ [][NextSimplex]_vars

\* ------------------------------------------ the table lookups on their own

\* The columns i of the simplex cells looked up: every LookupStride-th one.
LookupColumns == {i \in 0..MaxLookupCell : i % LookupStride = 0}

\* The state after SimplexNoiseGenerator(), with a simplex cell (i, j) and a
\* middle corner (i1, j1) that generate_raw_unoctaved_noise has arrived at.
InitLookups ==
    /\ generator = "SimplexNoiseGenerator"
    /\ pc = "start"
    /\ exception = "none"
    /\ new_dungeon_map = <<>>
    /\ room_min_count = 0
    /\ each_new_room_attempt = 0
    /\ list_of_candidate_rooms = <<>>
    /\ list_of_all_centerpoints = <<>>
    /\ list_of_room_connection_colors = <<>>
    /\ list_of_new_corridors = <<>>
    /\ rooms_linked = 0
    /\ passes_left = 0
    /\ the_dungeon_map = <<>>
    /\ referenced = {}
    /\ list_of_rooms = <<>>
    /\ rectangle_alpha = None
    /\ rectangle_beta = None
    /\ do_they_intersect = FALSE
    /\ has_returned = FALSE
    /\ each_row_index = 0
    /\ each_column_index = 0
    /\ PlasmaIdle
    /\ noise_array_seed = InitialNoiseArraySeed
    /\ \E rule \in 0..MaxShuffleRule :
         /\ noise_array = double_the_noise_array(ShuffledSeed(rule))
         /\ permutations_table =
                generate_permutations_table(double_the_noise_array(ShuffledSeed(rule)))
         /\ explicitly_seeded_table = permutations_table
         /\ random_draws = rule
    /\ noise_width = 0
    /\ noise_height = 0
    /\ frequency = <<>>
    /\ octaves = <<>>
    /\ turbulence_size = <<>>
    /\ noise_value = <<>>
    /\ result = <<>>
    /\ supplied_x = 0
    /\ supplied_y = 0
    /\ scale = <<>>
    /\ persistence = <<>>
    /\ randseed = 0
    /\ array_to_be_returned = <<>>
    /\ returned_grids = <<>>
    /\ corridor_alpha = None
    /\ corridor_beta = None
    /\ new_corridor = None
    /\ new_l_corridor = None
    /\ lookup_cell \in LookupColumns \X (0..MaxLookupCell)
    /\ lookup_corner \in {<<1, 0>>, <<0, 1>>}
    /\ gradient_lookups = None

\* The python indices 0..511 the table has.
TableIndices == 0..(Len(permutations_table) - 1)

\* The three double lookups of generate_raw_unoctaved_noise for the cell and
\* the middle corner: the inner indices, the outer indices and the gradient
\* indices are recorded; an index the table does not have raises IndexError.
LookUpGradients ==
    /\ lookup_cell # None
    /\ gradient_lookups = None
    /\ exception = "none"
    /\ LET ii == HashedCell(lookup_cell[1], lookup_cell[2])[1]
           jj == HashedCell(lookup_cell[1], lookup_cell[2])[2]
           i1 == lookup_corner[1]
           j1 == lookup_corner[2]
           inner == <<jj, jj + j1, jj + 1>>
       IN  IF \E k \in 1..3 : inner[k] \notin TableIndices
           THEN /\ pc' = "error"
                /\ exception' = "IndexError"
                /\ UNCHANGED gradient_lookups
           ELSE LET outer == <<ii + permutations_table[inner[1] + 1],
                               ii + i1 + permutations_table[inner[2] + 1],
                               ii + 1 + permutations_table[inner[3] + 1]>>
                IN  IF \E k \in 1..3 : outer[k] \notin TableIndices
                    THEN /\ pc' = "error"
                         /\ exception' = "IndexError"
                         /\ UNCHANGED gradient_lookups
                    ELSE /\ gradient_lookups' =
                                <<inner, outer,
                                  <<permutations_table[outer[1] + 1] % 12,
                                    permutations_table[outer[2] + 1] % 12,
                                    permutations_table[outer[3] + 1] % 12>>>>
                         /\ UNCHANGED <<pc, exception>>
    /\ UNCHANGED <<generator, room_min_count, each_new_room_attempt,
                   list_of_candidate_rooms, linkVars, gridVars, sequentialVars, rectVars,
                   scanVars, noiseVars, corridor_alpha, corridor_beta, new_corridor,
                   new_l_corridor, lookup_cell, lookup_corner>>

NextLookups == LookUpGradients

SpecLookups == InitLookups /\ [][NextLookups]_vars

\* ------------------------------------------------ properties of the generators

\* The <<row, col>> index pairs of the cells of a grid whose value is >= 1.
Excavated(grid) ==
    {ix \in (0..(Len(grid) - 1)) \X (0..(Len(grid[1]) - 1)) : Cell(grid, ix[1], ix[2]) >= 1}

Adjacent(c, d) == Abs(c[1] - d[1]) + Abs(c[2] - d[2]) = 1

\* The cells of open that a path of 4-adjacent cells of open joins to seen.
RECURSIVE Flood(_, _)
Flood(open, seen) ==
    LET next == seen \cup {c \in open : \E d \in seen : Adjacent(c, d)}
    IN  IF next = seen THEN seen ELSE Flood(open, next)

MarkIIReturned == generator = "MarkIIDungeonMapGenerator" /\ pc = "done"

\* C1: in the grid MarkII returns for at least two accepted rooms, every cell
\* of every room is joined to the cells of the first room (and so to every
\* cell of every other room) by a path of 4-adjacent cells of value >= 1.
C1_AllRoomsConnected ==
    (MarkIIReturned /\ Len(list_of_candidate_rooms) >= 2) =>
        AllIndices(list_of_candidate_rooms, 1) \subseteq
            Flood(Excavated(the_dungeon_map), IndicesOf(list_of_candidate_rooms[1]))

\* A grid has been returned for four rooms that the first pass left in two
\* colors: the merge loop added the fifth pair of corridors.
C1_Witness ==
    /\ MarkIIReturned
    /\ Len(list_of_candidate_rooms) = 4
    /\ Len(list_of_new_corridors) = 10
    /\ Len(list_of_room_connection_colors) = 1

NoTwoShareACell(rooms) ==
    \A i \in 1..Len(rooms) : \A j \in 1..Len(rooms) :
        i < j => ~ShareACell(rooms[i], rooms[j])

\* C2: at every point of the placement loop of either generator, and in the
\* final accepted list, no two accepted rooms share a grid cell.
C2_RoomsDoNotOverlap ==
    /\ NoTwoShareACell(list_of_candidate_rooms)
    /\ NoTwoShareACell(list_of_rooms)

\* The placement loop holds three accepted rooms and has turned at least one
\* candidate away.
C2_Witness ==
    /\ pc = "place"
    /\ Len(list_of_candidate_rooms) = 3
    /\ each_new_room_attempt > Len(list_of_candidate_rooms)

HasSuppliedSize(grid) ==
    /\ Len(grid) = SuppliedMapHeight
    /\ \A row \in 1..Len(grid) : Len(grid[row]) = SuppliedMapWidth

\* C5: the grid either generator builds for generate_noise(supplied_map_width=W,
\* supplied_map_height=H, ...) has exactly H rows of exactly W entries.
C5_GridHasSuppliedSize ==
    /\ (generator = "DungeonMapGenerator" /\ pc # "start") => HasSuppliedSize(new_dungeon_map)
    /\ MarkIIReturned => HasSuppliedSize(the_dungeon_map)

\* C6: in the grid MarkII returns, every cell of the last row and every cell
\* of the last column is 0.
C6_LastRowAndColumnUncarved ==
    MarkIIReturned =>
        /\ \A col \in 0..(Len(the_dungeon_map[1]) - 1) :
               Cell(the_dungeon_map, Len(the_dungeon_map) - 1, col) = 0
        /\ \A row \in 0..(Len(the_dungeon_map) - 1) :
               Cell(the_dungeon_map, row, Len(the_dungeon_map[1]) - 1) = 0

\* A grid has been returned in which a room lies against the column before the
\* last one, another against the row before the last one, and corridors have
\* been carved.
C6_Witness ==
    /\ MarkIIReturned
    /\ list_of_new_corridors # <<>>
    /\ \E i \in 1..Len(list_of_candidate_rooms) :
           RX(list_of_candidate_rooms[i]) + RW(list_of_candidate_rooms[i])
               = Len(the_dungeon_map[1]) - 1
    /\ \E i \in 1..Len(list_of_candidate_rooms) :
           RY(list_of_candidate_rooms[i]) + RH(list_of_candidate_rooms[i])
               = Len(the_dungeon_map) - 1

\* C7: no room the Sequential generator places covers a cell of the last row
\* or of the last column of the grid the same call has built: x + w - 1 is
\* less than the index of the last column, y + h - 1 less than the index of
\* the last row.
C7_SequentialRoomsOffTheLastRowAndColumn ==
    \A i \in 1..Len(list_of_rooms) :
        /\ RX(list_of_rooms[i]) + RW(list_of_rooms[i]) - 1 < Len(new_dungeon_map[1]) - 1
        /\ RY(list_of_rooms[i]) + RH(list_of_rooms[i]) - 1 < Len(new_dungeon_map) - 1

\* C8: MarkII's rasterization of the rooms and of all corridors raises no
\* IndexError, and every index pair it uses is inside the grid the call
\* builds: 0 <= row < number of rows, 0 <= column < row length.
C8_NoIndexOutsideTheGrid ==
    /\ exception # "IndexError"
    /\ \A ix \in referenced :
           /\ ix[1] \in 0..(map_height - 1)
           /\ ix[2] \in 0..(map_width - 1)
    /\ MarkIIReturned =>
           /\ Len(the_dungeon_map) = map_height
           /\ \A row \in 1..Len(the_dungeon_map) : Len(the_dungeon_map[row]) = map_width

\* Rooms, first-pass corridors and a merge corridor have been rasterized: the
\* index pairs of all of them are recorded.
C8_Witness ==
    /\ MarkIIReturned
    /\ Len(list_of_new_corridors) > 2 * Len(list_of_candidate_rooms)
    /\ AllIndices(list_of_candidate_rooms \o list_of_new_corridors, 1) \subseteq referenced
    /\ referenced # {}

\* C9: when MarkII's placement ends with exactly one accepted room, the call
\* raises no error and creates no corridor, and the grid it returns has
\* exactly that room's cells excavated.
C9_SingleRoomIsReturned ==
    (generator = "MarkIIDungeonMapGenerator" /\ pc \notin {"start", "place"}
        /\ Len(list_of_candidate_rooms) = 1) =>
            /\ exception = "none"
            /\ list_of_new_corridors = <<>>
            /\ pc = "done" =>
                   Excavated(the_dungeon_map) = IndicesOf(list_of_candidate_rooms[1])

\* The cells of the horizontal and of the vertical corridor between the
\* centerpoints of two rooms, for one of the two orders.
CorridorsBetweenCarved(grid, room_a, room_b) ==
    LET a == CenterOfRoom(room_a)
        b == CenterOfRoom(room_b)
    IN  \E which_direction_first \in 0..1 :
            LET corridors == LCorridor(a[1], a[2], b[1], b[2], which_direction_first)
            IN  (IndicesOf(corridors[1]) \cup IndicesOf(corridors[2])) \subseteq Excavated(grid)

\* C10: once enough rooms are accepted the Sequential generator completes
\* without error, and the grid it returns has, for every room and the next one
\* in placement order (the last wrapping to the first), the two corridors
\* between the two rooms' own centerpoints carved.
C10_SequentialLinkingCompletes ==
    (generator = "DungeonMapGenerator" /\ pc \notin {"start", "place"}) =>
        /\ exception = "none"
        /\ pc = "done" =>
               \A k \in 1..Len(list_of_rooms) :
                   CorridorsBetweenCarved(new_dungeon_map, list_of_rooms[k],
                                          list_of_rooms[(k % Len(list_of_rooms)) + 1])

\* C17: every cell of a grid MarkII returns is 0 or 1.
C17_CellsAreZeroOrOne ==
    MarkIIReturned =>
        \A row \in 1..Len(the_dungeon_map) : \A col \in 1..Len(the_dungeon_map[row]) :
            the_dungeon_map[row][col] \in {0, 1}

\* Two index sets of rasterized rectangles meet.
Meet(r1, r2) == IndicesOf(r1) \cap IndicesOf(r2) # {}

\* A grid has been returned in which a corridor runs over a cell of a room and
\* two corridors of different links cross.
C17_Witness ==
    /\ MarkIIReturned
    /\ \E i \in 1..Len(list_of_candidate_rooms) : \E k \in 1..Len(list_of_new_corridors) :
           Meet(list_of_candidate_rooms[i], list_of_new_corridors[k])
    /\ \E k \in 1..Len(list_of_new_corridors) : \E l \in 1..Len(list_of_new_corridors) :
           /\ k + 1 < l
           /\ RW(list_of_new_corridors[k]) > 1
           /\ RH(list_of_new_corridors[l]) > 1
           /\ Meet(list_of_new_corridors[k], list_of_new_corridors[l])

\* The grids of the corridor loop: the grid the loop last produced (the last
\* entry of grids) is carved with corridor k and appended, for every corridor
\* from k on.
RECURSIVE GridsWhileCarving(_, _)
GridsWhileCarving(grids, k) ==
    IF k > Len(list_of_new_corridors) THEN grids
    ELSE GridsWhileCarving(
             Append(grids, WriteIfUncarved(grids[Len(grids)], list_of_new_corridors[k])),
             k + 1)

\* Entry 1 is the grid with the rooms written, entry k + 1 the grid after
\* corridor k.
CorridorGrids ==
    GridsWhileCarving(
        <<WriteRooms(ZeroGrid(map_height, map_width), list_of_candidate_rooms, 1)>>, 1)

\* Carving rectangle r into grid before gives grid after: only cells of r that
\* were 0 change, they become 1, and carving r again changes nothing.
CarvesOnlyUncarved(before, after, r) ==
    /\ \E cells \in {IndicesOf(r)} :
         \A row \in 1..Len(before) : \A col \in 1..Len(before[row]) :
           IF <<row - 1, col - 1>> \in cells /\ before[row][col] = 0
           THEN after[row][col] = 1
           ELSE after[row][col] = before[row][col]
    /\ WriteIfUncarved(after, r) = after

\* C18: in MarkII's rasterization every corridor changes only cells that are 0,
\* setting them to 1, leaves every excavated cell as it was, and carving it a
\* second time changes nothing.
C18_CorridorCarvingIsIdempotent ==
    MarkIIReturned =>
        \E grids \in {CorridorGrids} :
            /\ \A k \in 1..Len(list_of_new_corridors) :
                   CarvesOnlyUncarved(grids[k], grids[k + 1], list_of_new_corridors[k])
            /\ the_dungeon_map = grids[Len(grids)]

\* A grid has been returned after a corridor was carved over cells of which
\* some were already excavated and some were still 0.
C18_Witness ==
    /\ MarkIIReturned
    /\ \E grids \in {CorridorGrids} :
         \E k \in 1..Len(list_of_new_corridors) :
           /\ \E ix \in IndicesOf(list_of_new_corridors[k]) : Cell(grids[k], ix[1], ix[2]) = 1
           /\ \E ix \in IndicesOf(list_of_new_corridors[k]) : Cell(grids[k], ix[1], ix[2]) = 0

\* The accepted rooms of the generator that is running.
AcceptedRooms ==
    IF generator = "DungeonMapGenerator" THEN list_of_rooms ELSE list_of_candidate_rooms

\* C20: the accepted list never holds more rooms than attempts were made in
\* the current batch (a batch that ends short leaves nothing to the next one),
\* and once placement is left it holds between room_min_count and
\* room_max_count rooms.
C20_BatchRetry ==
    /\ Len(AcceptedRooms) <= each_new_room_attempt
    /\ each_new_room_attempt <= room_max_count
    /\ pc \notin {"start", "place"} =>
           /\ room_min_count <= Len(AcceptedRooms)
           /\ Len(AcceptedRooms) <= room_max_count

\* A batch of room_max_count attempts has ended with fewer than room_min_count
\* accepted rooms.
C20_Witness ==
    /\ pc = "place"
    /\ each_new_room_attempt = room_max_count
    /\ Len(AcceptedRooms) >= 1
    /\ Len(AcceptedRooms) < room_min_count


\* ---- plasma

PlasmaReturned == generator = "PlasmaFractalGenerator" /\ pc = "done"

\* The cell a saved [x, y, z] entry is written to, as <<row, column>> from 0.
CellOfLeaf(leaf) == <<leaf[2] \div CoordScale, leaf[1] \div CoordScale>>

\* C11 as stated: with all four corners supplied, the four corner cells of the
\* returned grid equal uleft, uright, lleft and lright.
C11_CornerCellsEqualTheSuppliedCorners ==
    PlasmaReturned =>
        /\ array_to_return[1][1] = supplied_corners[1] * ZScale
        /\ array_to_return[1][supplied_width] = supplied_corners[2] * ZScale
        /\ array_to_return[supplied_height][1] = supplied_corners[3] * ZScale
        /\ array_to_return[supplied_height][supplied_width] = supplied_corners[4] * ZScale

\* C11 (amended): with all four corners supplied, a supplied corner value
\* reaches the leaf call at that corner of the region unchanged, as that
\* leaf's outer corner argument; the z a leaf stores is the mean of its four
\* corner arguments, and a corner cell of the returned grid holds the z of the
\* last leaf that was rounded down to it.
C11_CornerLeavesStoreTheMeanOfTheirCorners ==
    /\ [][(generator = "PlasmaFractalGenerator"
             /\ Len(saved_noise_array') = Len(saved_noise_array) + 1) =>
            \E call \in {Head(pending_calls)} :
              \E leaf \in {saved_noise_array'[Len(saved_noise_array')]} :
                /\ 4 * leaf[3] = call[5] + call[6] + call[7] + call[8]
                /\ (call[1] = 0 /\ call[2] = 0) =>
                       call[5] = supplied_corners[1] * ZScale
                /\ (call[1] + call[3] = supplied_width * CoordScale /\ call[2] = 0) =>
                       call[6] = supplied_corners[2] * ZScale
                /\ (call[1] = 0 /\ call[2] + call[4] = supplied_height * CoordScale) =>
                       call[7] = supplied_corners[3] * ZScale
                /\ (call[1] + call[3] = supplied_width * CoordScale
                      /\ call[2] + call[4] = supplied_height * CoordScale) =>
                       call[8] = supplied_corners[4] * ZScale]_vars
    /\ [](PlasmaReturned =>
            \A corner \in {<<0, 0>>, <<0, supplied_width - 1>>, <<supplied_height - 1, 0>>,
                           <<supplied_height - 1, supplied_width - 1>>} :
              \E i \in 1..Len(saved_noise_array) :
                /\ CellOfLeaf(saved_noise_array[i]) = corner
                /\ array_to_return[corner[1] + 1][corner[2] + 1] = saved_noise_array[i][3]
                /\ \A j \in (i + 1)..Len(saved_noise_array) :
                       CellOfLeaf(saved_noise_array[j]) # corner)

\* A grid of more than one cell is returned whose four corner cells all differ
\* from the supplied corners.
C11_Witness ==
    /\ PlasmaReturned
    /\ supplied_width > 1
    /\ supplied_height > 1
    /\ array_to_return[1][1] # supplied_corners[1] * ZScale
    /\ array_to_return[1][supplied_width] # supplied_corners[2] * ZScale
    /\ array_to_return[supplied_height][1] # supplied_corners[3] * ZScale
    /\ array_to_return[supplied_height][supplied_width] # supplied_corners[4] * ZScale

\* C12: for every supplied_width >= 1 and supplied_height >= 1 with
\* minimum_separation_distance 1, every saved cell's coordinates rounded down
\* are inside the grid (no IndexError), and the returned grid has
\* supplied_height rows of supplied_width cells, none of them left at -1.
C12_PlasmaGridIsDense ==
    generator = "PlasmaFractalGenerator" =>
        /\ pc # "error"
        /\ \A i \in 1..Len(saved_noise_array) :
               /\ saved_noise_array[i][1] >= 0
               /\ saved_noise_array[i][2] >= 0
               /\ saved_noise_array[i][1] \div CoordScale < supplied_width
               /\ saved_noise_array[i][2] \div CoordScale < supplied_height
        /\ pc = "done" =>
               /\ Len(array_to_return) = supplied_height
               /\ \A row \in 1..supplied_height :
                      /\ Len(array_to_return[row]) = supplied_width
                      /\ \A col \in 1..supplied_width :
                             array_to_return[row][col] # Sentinel * ZScale

\* A grid that is neither square nor a power of two wide is returned.
C12_Witness ==
    /\ PlasmaReturned
    /\ supplied_width = 3
    /\ supplied_height = 2


\* ---- value noise

PerlinReturned == generator = "PerlinNoiseGenerator" /\ pc = "done"

\* C16 as stated: every cell of the grid PerlinNoiseGenerator.generate_noise
\* returns is an integer v with 0 <= v < 256.
C16_ValueNoiseCellsBelow256 ==
    generator = "PerlinNoiseGenerator" =>
        \A row \in 1..Len(result) : \A col \in 1..Len(result[row]) :
            /\ result[row][col] \in Int
            /\ 0 <= result[row][col]
            /\ result[row][col] < 256


\* ------------------------------------------------ simplex noise

\* The table built from a shuffle whose draws follow the rule.
TableOfDraws(rule) ==
    generate_permutations_table(double_the_noise_array(ShuffledSeed(rule)))

C14_SameSeedSameGrid ==
    \A first, second \in DOMAIN returned_grids :
        returned_grids[first] = returned_grids[second]

InSimplexRange(v) ==
    /\ FloatCompare(v, Zero) >= 0
    /\ FloatCompare(v, FloatOfInt(256)) < 0

\* C15: every cell that generate_noise of the simplex generator has computed,
\* in the array being built and in the grids returned, is a float v with
\* 0 <= v < 256.
C15_SimplexCellsInRange ==
    generator = "SimplexNoiseGenerator" =>
        /\ \A row \in DOMAIN array_to_be_returned :
             \A column \in DOMAIN array_to_be_returned[row] :
                 InSimplexRange(array_to_be_returned[row][column])
        /\ \A grid \in DOMAIN returned_grids :
             \A row \in DOMAIN returned_grids[grid] :
                 \A column \in DOMAIN returned_grids[grid][row] :
                     InSimplexRange(returned_grids[grid][row][column])

\* A grid of two cells has been returned from two octaves with persistence
\* one half, and its second cell is not the middle value 128.
C15_Witness ==
    /\ generator = "SimplexNoiseGenerator"
    /\ octaves = 2
    /\ persistence = Half
    /\ Len(returned_grids) >= 1
    /\ Len(returned_grids[1][1]) = 2
    /\ returned_grids[1][1][2] # FloatOfInt(128)



\* ------------------------------------------------ MarkII: the components

\* The merge loop is over: the grid has been returned, or rasterization has
\* raised IndexError.
MergeLoopEnded ==
    /\ generator = "MarkIIDungeonMapGenerator"
    /\ \/ pc = "done"
       \/ pc = "error" /\ exception = "IndexError"

\* One iteration of the merge loop has removed the color at python index
\* beta_index and appended its members to color 0.
MergedInto(before, after, beta_index) ==
    /\ Len(after) = Len(before) - 1
    /\ after[1] = before[1] \o before[beta_index + 1]
    /\ \A k \in 2..Len(after) :
           after[k] = IF k < beta_index + 1 THEN before[k] ELSE before[k + 1]

RoomsOfTheBatch ==
    IF generator = "DungeonMapGenerator" THEN list_of_rooms ELSE list_of_candidate_rooms

\* A batch has ended with fewer rooms than room_min_count.
BatchIsShort ==
    /\ generator \in {"MarkIIDungeonMapGenerator", "DungeonMapGenerator"}
    /\ pc = "place"
    /\ each_new_room_attempt = room_max_count
    /\ Len(RoomsOfTheBatch) < room_min_count

\* C21: a call whose room_min_count exceeds room_max_count stays in room
\* placement for ever: it never returns, never reports an error and always
\* has a next step of placement to take; and whatever the cause, the step
\* after a short batch starts the next batch from an empty list, silently and
\* with no count of the batches tried.
C21_ShortBatchesAreRetriedForEver ==
    /\ [](room_min_count > room_max_count =>
            /\ pc \in {"start", "place"}
            /\ exception = "none"
            /\ ENABLED Next)
    /\ [][BatchIsShort =>
            /\ pc' = "place"
            /\ exception' = "none"
            /\ each_new_room_attempt' = 0
            /\ RoomsOfTheBatch' = <<>>]_vars

\* A batch of a call whose room_min_count exceeds room_max_count has ended
\* with every attempt accepted, and is still short.
C21_Witness ==
    /\ BatchIsShort
    /\ room_min_count > room_max_count
    /\ Len(RoomsOfTheBatch) = room_max_count



\* ------------------------------------------------ corridors

\* C27: define_corridor('horizontal', x, y, x2, y2) returns
\* [min(x, x2), y, |x2 - x| + 1, 1], define_corridor('vertical', ...) returns
\* [x, min(y, y2), 1, |y2 - y| + 1], and the width and the height returned
\* are at least 1, whatever the order of the endpoints.
C27_DefineCorridorNormalises ==
    new_corridor # None =>
        LET x == corridor_alpha[1]
            y == corridor_alpha[2]
            x2 == corridor_beta[1]
            y2 == corridor_beta[2]
            corridor == new_corridor[2]
        IN  /\ new_corridor[1] = "horizontal" =>
                   corridor = <<Min2(x, x2), y, Abs(x2 - x) + 1, 1>>
            /\ new_corridor[1] = "vertical" =>
                   corridor = <<x, Min2(y, y2), 1, Abs(y2 - y) + 1>>
            /\ RW(corridor) >= 1
            /\ RH(corridor) >= 1

\* A horizontal corridor has been defined from an endpoint to one on its left.
C27_Witness ==
    /\ new_corridor # None
    /\ new_corridor[1] = "horizontal"
    /\ corridor_beta[1] < corridor_alpha[1] - 1
    /\ RX(new_corridor[2]) = corridor_beta[1]

\* The <<row, col>> cell of a centerpoint <<x, y>>.
CellOfPoint(point) == <<point[2], point[1]>>

\* C28: the horizontal and the vertical corridor built between A and B, for
\* either value of which_direction_first, share their elbow cell; their union
\* is 4-connected and contains A and B; every cell of the union lies in the
\* bounding box of A and B; and the centerpoint computed for each corridor is
\* one of that corridor's own cells.
C28_LCorridorJoinsItsEndpoints ==
    new_l_corridor # None =>
        LET horizontal == new_l_corridor[2]
            vertical == new_l_corridor[3]
            elbow == IF new_l_corridor[1] = 0
                     THEN <<corridor_alpha[2], corridor_beta[1]>>
                     ELSE <<corridor_beta[2], corridor_alpha[1]>>
            union == IndicesOf(horizontal) \cup IndicesOf(vertical)
        IN  /\ elbow \in IndicesOf(horizontal) \cap IndicesOf(vertical)
            /\ Flood(union, {elbow}) = union
            /\ CellOfPoint(corridor_alpha) \in union
            /\ CellOfPoint(corridor_beta) \in union
            /\ \A cell \in union :
                 /\ cell[1] \in Min2(corridor_alpha[2], corridor_beta[2])
                                  ..Max2(corridor_alpha[2], corridor_beta[2])
                 /\ cell[2] \in Min2(corridor_alpha[1], corridor_beta[1])
                                  ..Max2(corridor_alpha[1], corridor_beta[1])
            /\ CellOfPoint(CenterOfRoom(horizontal)) \in IndicesOf(horizontal)
            /\ CellOfPoint(CenterOfRoom(vertical)) \in IndicesOf(vertical)

\* An L has been built with the vertical corridor first, between two
\* centerpoints that differ in both coordinates, B above and left of A.
C28_Witness ==
    /\ new_l_corridor # None
    /\ new_l_corridor[1] = 1
    /\ corridor_beta[1] < corridor_alpha[1]
    /\ corridor_beta[2] < corridor_alpha[2]
    /\ RW(new_l_corridor[2]) >= 3
    /\ RH(new_l_corridor[3]) >= 3



\* ------------------------------------------------ MarkII: first-pass linking

\* A step of the first-pass loop that links the next room.
LinkStep ==
    /\ generator = "MarkIIDungeonMapGenerator"
    /\ pc = "link"
    /\ rooms_linked' = rooms_linked + 1

\* The centerpoint of the room the first-pass loop is at.
RoomBeingLinked == CenterOfRoom(list_of_candidate_rooms[rooms_linked + 1])

\* The centerpoints of the rectangles of a list, in order.
CenterpointsOf(rectangles) ==
    [i \in 1..Len(rectangles) |-> CenterOfRoom(rectangles[i])]

\* The two corridors the step has appended.
CorridorsJustRecorded ==
    SubSeq(list_of_new_corridors', Len(list_of_new_corridors) + 1,
           Len(list_of_new_corridors) + 2)

\* C26: during the first pass the known centerpoints are those of all rooms
\* followed by those of the corridors recorded for earlier rooms; the room
\* with centerpoint A is linked to a known centerpoint B that differs from A,
\* than which no known centerpoint other than A is strictly nearer to A, and
\* which is the earliest in the list among the nearest.
C26_LinksToTheNearestOtherCenterpoint ==
    /\ [](generator = "MarkIIDungeonMapGenerator" /\ pc = "link" =>
            list_of_all_centerpoints =
                CenterpointsOf(list_of_candidate_rooms)
                    \o CenterpointsOf(list_of_new_corridors))
    /\ [][LinkStep =>
            \E k \in 1..Len(list_of_all_centerpoints) :
              LET A == RoomBeingLinked
                  B == list_of_all_centerpoints[k]
                  Distance(point) == HypotenuseSquared(A[1], A[2], point[1], point[2])
              IN  /\ B # A
                  /\ \A m \in 1..Len(list_of_all_centerpoints) :
                       list_of_all_centerpoints[m] # A =>
                           Distance(list_of_all_centerpoints[m]) >= Distance(B)
                  /\ \A m \in 1..(k - 1) :
                       list_of_all_centerpoints[m] # A =>
                           Distance(list_of_all_centerpoints[m]) > Distance(B)
                  /\ \E which_direction_first \in 0..1 :
                       CorridorsJustRecorded =
                           LCorridor(A[1], A[2], B[1], B[2], which_direction_first)]_vars

\* The third room is about to be linked, and the centerpoint strictly nearest
\* to it is that of a corridor recorded for an earlier room, which is the
\* centerpoint of no room.
C26_Witness ==
    /\ generator = "MarkIIDungeonMapGenerator"
    /\ pc = "link"
    /\ rooms_linked = 2
    /\ Len(list_of_candidate_rooms) >= 3
    /\ \E k \in (Len(list_of_candidate_rooms) + 1)..Len(list_of_all_centerpoints) :
         /\ which_centerpoint_is_closest(RoomBeingLinked[1], RoomBeingLinked[2],
                                         list_of_all_centerpoints)
                = list_of_all_centerpoints[k]
         /\ \A m \in 1..Len(list_of_candidate_rooms) :
                list_of_all_centerpoints[m] # list_of_all_centerpoints[k]



\* The members of a color, as a set.
Members(color) == {color[i] : i \in 1..Len(color)}

\* The four centerpoints of the link being recorded: A, B and the centerpoints
\* of the two corridors just recorded.
PointsOfTheLink ==
    {RoomBeingLinked,
     which_centerpoint_is_closest(RoomBeingLinked[1], RoomBeingLinked[2],
                                  list_of_all_centerpoints),
     CenterOfRoom(CorridorsJustRecorded[1]),
     CenterOfRoom(CorridorsJustRecorded[2])}

IsPrefix(shorter, longer) ==
    /\ Len(shorter) <= Len(longer)
    /\ SubSeq(longer, 1, Len(shorter)) = shorter

C25_NoDuplicatesInAColor ==
    (generator = "MarkIIDungeonMapGenerator" /\ pc = "link") =>
        \A i \in 1..Len(list_of_room_connection_colors) :
            Cardinality(Members(list_of_room_connection_colors[i]))
                = Len(list_of_room_connection_colors[i])



\* The cells of the rooms accepted and of the corridors recorded so far.
CellsSoFar == AllIndices(list_of_candidate_rooms \o list_of_new_corridors, 1)

\* All members of the color are cells so far, joined to its first member by
\* 4-adjacent cells so far.
MutuallyReachable(color) ==
    {CellOfPoint(color[i]) : i \in 1..Len(color)}
        \subseteq Flood(CellsSoFar, {CellOfPoint(color[1])} \cap CellsSoFar)

\* A step of the merge loop that absorbs a color.
MergeStep ==
    /\ generator = "MarkIIDungeonMapGenerator"
    /\ pc = "merge"
    /\ pc' = "merge"

\* C23: at every point of the first pass and of merging, the centerpoints of
\* one color are cells of the rooms accepted and corridors recorded so far
\* that paths of 4-adjacent such cells join to one another; and at every
\* merge, the L just recorded runs between a member of color 0 and a member
\* of a color that the step removes.
C23_ColorsAreMutuallyReachable ==
    /\ []((generator = "MarkIIDungeonMapGenerator" /\ pc \in {"link", "merge"}) =>
            \A i \in 1..Len(list_of_room_connection_colors) :
                MutuallyReachable(list_of_room_connection_colors[i]))
    /\ [][MergeStep =>
            \E beta_index \in 1..(Len(list_of_room_connection_colors) - 1) :
              /\ MergedInto(list_of_room_connection_colors,
                            list_of_room_connection_colors', beta_index)
              /\ \E from \in Members(list_of_room_connection_colors[1]),
                    to \in Members(list_of_room_connection_colors[beta_index + 1]),
                    which_direction_first \in 0..1 :
                   CorridorsJustRecorded =
                       LCorridor(from[1], from[2], to[1], to[2], which_direction_first)]_vars

\* Four rooms that the first pass left in two colors are in one color after a
\* merge, which recorded the fifth pair of corridors.
C23_Witness ==
    /\ generator = "MarkIIDungeonMapGenerator"
    /\ pc = "merge"
    /\ passes_left = 1
    /\ Len(list_of_candidate_rooms) = 4
    /\ Len(list_of_new_corridors) = 10
    /\ Len(list_of_room_connection_colors) = 1
    /\ MutuallyReachable(list_of_room_connection_colors[1])

\* ------------------------------------------------ simplex: the table

\* C29: after construction and after every reseed, the noise array has 512
\* entries, its first 256 hold each of 0..255 (the values of the seed) exactly
\* once, its last 256 repeat them in the same order, the permutation table
\* holds noise_array[i & hash_number] at every python index i in 0..511, and
\* self.noise_array_seed is the sequence __init__ set.
C29_ReseedBuildsAValidTable ==
    generator = "SimplexNoiseGenerator" =>
        /\ Len(noise_array) = 512
        /\ {noise_array[k] : k \in 1..256} = 0..255
        /\ {noise_array[k] : k \in 1..256} = {InitialNoiseArraySeed[k] : k \in 1..256}
        /\ \A k \in 1..256 : noise_array[k + 256] = noise_array[k]
        /\ Len(permutations_table) = 512
        /\ \A i \in 0..511 :
               permutations_table[i + 1] = noise_array[BitAnd(i, hash_number) + 1]
        /\ noise_array_seed = InitialNoiseArraySeed

\* A reseed has followed construction, by draws that do not leave the seed in
\* its order, and a second call of generate_noise has begun.
C29_Witness ==
    /\ generator = "SimplexNoiseGenerator"
    /\ Len(returned_grids) = 1
    /\ pc = "cells"
    /\ random_draws > 0
    /\ SubSeq(noise_array, 1, 256) # InitialNoiseArraySeed

\* C30: for every cell (i, j) with i, j >= 0 and both middle corners, the
\* three double lookups raise no IndexError, every index they use, inner and
\* outer, is one of 0..511, and every gradient index is one of 0..11.
C30_LookupsStayInTheTable ==
    /\ exception = "none"
    /\ Len(permutations_table) = 512
    /\ gradient_lookups # None =>
           /\ \A k \in 1..3 : gradient_lookups[1][k] \in 0..511
           /\ \A k \in 1..3 : gradient_lookups[2][k] \in 0..511
           /\ \A k \in 1..3 : gradient_lookups[3][k] \in 0..11
           /\ Len(grad3) = 12

\* The lookups were made for a cell whose column hashes to 255 and whose
\* third corner used the last index, 511, of the table.
C30_Witness ==
    /\ gradient_lookups # None
    /\ lookup_cell[1] = 255
    /\ gradient_lookups[2][3] = 511

====
